---- MODULE Spec2Model ----
(***************************************************************************)
(* FEC-AL (catid/fecal): a model of the decoder (FecalDecoder.cpp), the    *)
(* encoder (FecalEncoder.cpp) and the shared code parameters               *)
(* (FecalCommon.h/.cpp), used to check the properties stated for them.     *)
(*                                                                         *)
(* Bytes are naturals 0..255.  Buffers are sequences of bytes (index 1 is  *)
(* byte 0 of the C buffer).  32- and 64-bit machine words are tuples of    *)
(* bytes, least significant byte first, so that no intermediate value      *)
(* leaves the integer range of the checker.                                *)
(***************************************************************************)
EXTENDS Integers, Sequences, FiniteSets, TLC

(***************************************************************************)
(* Bounds of the model                                                     *)
(***************************************************************************)
\* Largest input_count given to Initialize
MaxK == 2
\* The total_bytes given to Initialize
GivenBytes == 3
\* Largest recovery row the encoder produces
MaxRow == 3
\* The last recovery row of the application that collects rows
MaxMatrixRow == 8
\* Values the first byte of the original data is drawn from
DataBytes == {183}
\* Largest number of Decode calls in which an allocation fails
MaxFailures == 1

(***************************************************************************)
(* Byte and word arithmetic                                                *)
(***************************************************************************)
Bit(v, i) == (v \div (2^i)) % 2

\* A sequence given by a function constructor, as an explicit tuple
AsTuple(s) == SubSeq(s, 1, Len(s))

\* e, with v evaluated first: a loop evaluates the step it has just made before
\* it goes on, as sequential code does (operator arguments are otherwise
\* evaluated on demand, all at once at the end of the loop)
Strict(v, e) == IF v = v THEN e ELSE e

\* a ^ b on 4-bit values, bit by bit
Xor4Table ==
    AsTuple([m \in 1..16 |-> AsTuple([n \in 1..16 |->
        LET a == m - 1
            b == n - 1
        IN    ((Bit(a,0) + Bit(b,0)) % 2)
            + 2 * ((Bit(a,1) + Bit(b,1)) % 2)
            + 4 * ((Bit(a,2) + Bit(b,2)) % 2)
            + 8 * ((Bit(a,3) + Bit(b,3)) % 2)])])

\* a ^ b on bytes
Xor8(a, b) == 16 * Xor4Table[(a \div 16) + 1][(b \div 16) + 1] + Xor4Table[(a % 16) + 1][(b % 16) + 1]

\* Bit i of a word given as a tuple of bytes; 0 outside the word
WBit(w, i) == IF i >= 0 /\ i < 8 * Len(w) THEN Bit(w[(i \div 8) + 1], i % 8) ELSE 0

\* The byte made of the bits base..base+7 of a word
ByteAt(w, base) ==
    WBit(w, base) + 2 * WBit(w, base+1) + 4 * WBit(w, base+2) + 8 * WBit(w, base+3)
  + 16 * WBit(w, base+4) + 32 * WBit(w, base+5) + 64 * WBit(w, base+6) + 128 * WBit(w, base+7)

\* A small natural as a 32-bit / 64-bit word
U32(n) == << n % 256, (n \div 256) % 256, (n \div 65536) % 256, (n \div 16777216) % 256 >>
U64(n) == U32(n) \o << 0, 0, 0, 0 >>

Shl32(w, n) == << ByteAt(w, 0 - n), ByteAt(w, 8 - n), ByteAt(w, 16 - n), ByteAt(w, 24 - n) >>
Shr32(w, n) == << ByteAt(w, n), ByteAt(w, 8 + n), ByteAt(w, 16 + n), ByteAt(w, 24 + n) >>
Not32(w) == << 255 - w[1], 255 - w[2], 255 - w[3], 255 - w[4] >>
Xor32(a, b) == << Xor8(a[1], b[1]), Xor8(a[2], b[2]), Xor8(a[3], b[3]), Xor8(a[4], b[4]) >>

\* a + b mod 2^32
Add32(a, b) ==
    LET t1 == a[1] + b[1]
        t2 == a[2] + b[2] + (t1 \div 256)
        t3 == a[3] + b[3] + (t2 \div 256)
        t4 == a[4] + b[4] + (t3 \div 256)
    IN  << t1 % 256, t2 % 256, t3 % 256, t4 % 256 >>

\* a + b mod 2^64
Add64(a, b) ==
    LET t1 == a[1] + b[1]
        t2 == a[2] + b[2] + (t1 \div 256)
        t3 == a[3] + b[3] + (t2 \div 256)
        t4 == a[4] + b[4] + (t3 \div 256)
        t5 == a[5] + b[5] + (t4 \div 256)
        t6 == a[6] + b[6] + (t5 \div 256)
        t7 == a[7] + b[7] + (t6 \div 256)
        t8 == a[8] + b[8] + (t7 \div 256)
    IN  << t1 % 256, t2 % 256, t3 % 256, t4 % 256,
           t5 % 256, t6 % 256, t7 % 256, t8 % 256 >>

\* a * b mod 2^64 (schoolbook multiplication on bytes): the products that make byte k
MulColumn(a, b, k) ==
      (IF 1 <= k THEN a[1] * b[k] ELSE 0)
    + (IF 2 <= k THEN a[2] * b[k - 1] ELSE 0)
    + (IF 3 <= k THEN a[3] * b[k - 2] ELSE 0)
    + (IF 4 <= k THEN a[4] * b[k - 3] ELSE 0)
    + (IF 5 <= k THEN a[5] * b[k - 4] ELSE 0)
    + (IF 6 <= k THEN a[6] * b[k - 5] ELSE 0)
    + (IF 7 <= k THEN a[7] * b[k - 6] ELSE 0)
    + (IF 8 <= k THEN a[8] * b[k - 7] ELSE 0)

Mul64(a, b) ==
    LET t1 == MulColumn(a, b, 1)
        t2 == MulColumn(a, b, 2) + (t1 \div 256)
        t3 == MulColumn(a, b, 3) + (t2 \div 256)
        t4 == MulColumn(a, b, 4) + (t3 \div 256)
        t5 == MulColumn(a, b, 5) + (t4 \div 256)
        t6 == MulColumn(a, b, 6) + (t5 \div 256)
        t7 == MulColumn(a, b, 7) + (t6 \div 256)
        t8 == MulColumn(a, b, 8) + (t7 \div 256)
    IN  << t1 % 256, t2 % 256, t3 % 256, t4 % 256,
           t5 % 256, t6 % 256, t7 % 256, t8 % 256 >>

\* A 32-bit word modulo a small positive n
Mod32(w, n) == ((((((w[4] % n) * 256 + w[3]) % n) * 256 + w[2]) % n) * 256 + w[1]) % n

(***************************************************************************)
(* PCG PRNG                                                                *)
(***************************************************************************)
\* 6364136223846793005 = 0x5851F42D4C957F2D
PCGMultiplier == << 45, 127, 149, 76, 45, 244, 81, 88 >>

\* State after one Next(): oldstate * 6364136223846793005 + Inc
PCGAdvance(state, inc) == Add64(Mul64(state, PCGMultiplier), inc)

\* (uint32_t)(((oldstate >> 18) ^ oldstate) >> 27)
XorShifted(oldstate) ==
    << Xor8(ByteAt(oldstate, 27), ByteAt(oldstate, 45)), Xor8(ByteAt(oldstate, 35), ByteAt(oldstate, 53)),
       Xor8(ByteAt(oldstate, 43), ByteAt(oldstate, 61)), Xor8(ByteAt(oldstate, 51), ByteAt(oldstate, 69)) >>

\* low | high for two words with no set bit in common
Or32(low, high) == << low[1] + high[1], low[2] + high[2], low[3] + high[3], low[4] + high[4] >>

\* (xorshifted >> rot) | (xorshifted << ((-rot) & 31))
RotateRight32(xorshifted, rot) ==
    IF rot = 0 THEN xorshifted ELSE Or32(Shr32(xorshifted, rot), Shl32(xorshifted, 32 - rot))

\* Value returned by Next() when State = oldstate; rot = oldstate >> 59
PCGOutput(oldstate) == RotateRight32(XorShifted(oldstate), oldstate[8] \div 8)

\* State after Seed(y, x): State = 0; Inc = (y << 1) | 1; Next(); State += x; Next()
PCGSeeded(inc, x) == [State |-> PCGAdvance(Add64(PCGAdvance(U64(0), inc), U64(x)), inc), Inc |-> inc]
PCGSeed(y, x) == PCGSeeded(U64(2 * y + 1), x)

(***************************************************************************)
(* Int32Hash and the code parameters                                       *)
(***************************************************************************)
\* Thomas Wang's 32-bit integer hash
Int32Hash1(key) == Add32(key, Not32(Shl32(key, 15)))
Int32Hash2(key) == Xor32(key, Shr32(key, 10))
Int32Hash3(key) == Add32(key, Shl32(key, 3))
Int32Hash4(key) == Xor32(key, Shr32(key, 6))
Int32Hash5(key) == Add32(key, Not32(Shl32(key, 11)))
Int32Hash6(key) == Xor32(key, Shr32(key, 16))
Int32Hash(key) == Int32Hash6(Int32Hash5(Int32Hash4(Int32Hash3(Int32Hash2(Int32Hash1(key))))))

kColumnValuePeriod == 253
kRowValuePeriod == 255
kColumnLaneCount == 8
kColumnSumCount == 3
kPairAddRate == 16

\* a * b as an unsigned 32-bit product, in two halves of 16 bits (a < 2^32, b < 2^15)
MulHigh(a, b) == ((a \div 65536) * b + ((a % 65536) * b) \div 65536) % 65536
MulLow(a, b) == ((a % 65536) * b) % 65536
\* (high * 2^16 + low) % p
ModHalves(high, low, p) == ((high % p) * (65536 % p) + low) % p

\* (uint8_t)(3 + (column * 199) % kColumnValuePeriod), column unsigned
GetColumnValue(column) == 3 + ModHalves(MulHigh(column, 199), MulLow(column, 199), kColumnValuePeriod)
GetRowValue(row) == 1 + ((row + 1) % kRowValuePeriod)

\* kSumMask = 63, kZeroValue = 16, kArbitraryOffset = 3
NonZeroOpcode(opcode) == IF opcode = 0 THEN 2^((kColumnSumCount - 1) * 2) ELSE opcode
GetRowOpcodeCalc(lane, row) ==
    NonZeroOpcode(Int32Hash(U32(lane + (row + 3) * kColumnLaneCount))[1] % (2^(kColumnSumCount * 2)))

\* The pair of columns one loop iteration draws, prng.Next() % count twice, and
\* the generator's state afterwards; next = the state after the first Next()
PairFrom(state, next, inc, count) ==
    [element1 |-> Mod32(PCGOutput(state), count),
     elementRX |-> Mod32(PCGOutput(next), count),
     State |-> PCGAdvance(next, inc)]
PairAt(state, inc, count) == PairFrom(state, PCGAdvance(state, inc), inc, count)

\* The pairs drawn by the remaining iterations of the loop over pairCount
RECURSIVE PairLoop(_, _, _, _)
PairLoopStep(pair, inc, count, iterations) ==
    << [element1 |-> pair.element1, elementRX |-> pair.elementRX] >> \o PairLoop(pair.State, inc, count, iterations - 1)
PairLoop(state, inc, count, iterations) ==
    IF iterations = 0 THEN << >> ELSE PairLoopStep(PairAt(state, inc, count), inc, count, iterations)

\* The pairs drawn for a row: prng.Seed(row, count), then pairCount iterations
PairDrawsSeeded(prng, count) == PairLoop(prng.State, prng.Inc, count, (count + kPairAddRate - 1) \div kPairAddRate)
PairDrawsCalc(row, count) == PairDrawsSeeded(PCGSeed(row, count), count)

\* Rows and counts the model evaluates GetRowOpcode / the pair draws for
TableRows == IF MaxMatrixRow > MaxRow + 1 THEN MaxMatrixRow + 1 ELSE MaxRow + 2
RowOpcodeTable ==
    AsTuple([r \in 1..TableRows |-> AsTuple([l \in 1..kColumnLaneCount |-> GetRowOpcodeCalc(l - 1, r - 1)])])
PairDrawsTable ==
    AsTuple([count \in 1..(MaxK + 1) |-> AsTuple([r \in 1..TableRows |-> PairDrawsCalc(r - 1, count)])])

GetRowOpcode(lane, row) == RowOpcodeTable[row + 1][lane + 1]
PairDraws(row, count) == PairDrawsTable[count][row + 1]

(***************************************************************************)
(* GF(2^8) primitives of the gf256 library (not among the sources; modelled *)
(* from their contract: polynomial arithmetic modulo x^8+x^6+x^3+x^2+1,    *)
(* the library's default generator polynomial 0x14D)                       *)
(***************************************************************************)
\* x * 2 in the field: shift left, reduce by 0x14D (low byte 0x4D = 77)
gf256_xtime(x) == IF x >= 128 THEN Xor8((2 * x) % 256, 77) ELSE 2 * x

\* The product of two polynomials modulo 0x14D: the sum of x * 2^i over the set bits i of y, from bit i on
RECURSIVE PolyMulFrom(_, _, _)
PolyMulFrom(x, y, i) ==
    IF i > 7 THEN 0 ELSE Xor8(IF Bit(y, i) = 1 THEN x ELSE 0, PolyMulFrom(gf256_xtime(x), y, i + 1))
PolyMul(x, y) == PolyMulFrom(x, y, 0)

\* The powers 2^0 .. 2^(2n-1) of the generator 2, from the powers 2^0 .. 2^(n-1)
ExpDouble(powers) ==
    AsTuple([i \in 1..(2 * Len(powers)) |->
        IF i <= Len(powers) THEN powers[i]
        ELSE PolyMul(powers[i - Len(powers)], gf256_xtime(powers[Len(powers)]))])
RECURSIVE ExpDoubled(_, _)
ExpDoubled(powers, times) == IF times = 0 THEN powers ELSE ExpDoubled(ExpDouble(powers), times - 1)

\* GF256_EXP_TABLE: the powers of the generator 2; 2^i is element i + 1
GF256_EXP_TABLE == SubSeq(ExpDoubled(<< 1 >>, 8), 1, 255)

\* GF256_LOG_TABLE: the logarithm of x is element x
LogTable(exp) == AsTuple([x \in 1..255 |-> CHOOSE i \in 0..254 : exp[i + 1] = x])

\* GF256_MUL_TABLE: x * y is element x + 1 of element y + 1
MulTable(exp, log) ==
    AsTuple([y \in 1..256 |-> AsTuple([x \in 1..256 |->
        IF x = 1 \/ y = 1 THEN 0 ELSE exp[((log[x - 1] + log[y - 1]) % 255) + 1]])])
\* GF256_INV_TABLE: 1 / x is element x + 1 (0 for x = 0)
InvTable(exp, log) == AsTuple([x \in 1..256 |-> IF x = 1 THEN 0 ELSE exp[((255 - log[x - 1]) % 255) + 1]])
TablesFrom(exp, log) == [mul |-> MulTable(exp, log), inv |-> InvTable(exp, log)]
TablesFromExp(exp) == TablesFrom(exp, LogTable(exp))
GF256Ctx == TablesFromExp(GF256_EXP_TABLE)

gf256_mul(x, y) == GF256Ctx.mul[y + 1][x + 1]

gf256_sqr(x) == gf256_mul(x, x)

\* 1 / y (0 for y = 0, as the library's inverse table)
gf256_inv(y) == GF256Ctx.inv[y + 1]

gf256_div(x, y) == gf256_mul(x, gf256_inv(y))

\* dst[i] ^= src[i] for i < bytes
gf256_add_mem(dst, src, bytes) ==
    AsTuple([i \in 1..Len(dst) |-> IF i <= bytes THEN Xor8(dst[i], src[i]) ELSE dst[i]])

\* dst[i] ^= y * src[i] for i < bytes
gf256_muladd_mem(dst, y, src, bytes) ==
    AsTuple([i \in 1..Len(dst) |-> IF i <= bytes THEN Xor8(dst[i], gf256_mul(y, src[i])) ELSE dst[i]])

\* dst[i] = src[i] / y for i < bytes
gf256_div_mem(dst, src, y, bytes) ==
    AsTuple([i \in 1..Len(dst) |-> IF i <= bytes THEN gf256_div(src[i], y) ELSE dst[i]])

\* memset(buffer, 0, bytes) on a fresh buffer of that size
ZeroBuffer(bytes) == AsTuple([i \in 1..bytes |-> 0])

\* dst[i] ^= x[i] ^ y[i] for i < bytes
gf256_add2_mem(dst, x, y, bytes) ==
    AsTuple([i \in 1..Len(dst) |-> IF i <= bytes THEN Xor8(dst[i], Xor8(x[i], y[i])) ELSE dst[i]])

(***************************************************************************)
(* Memory.  A pointer is a pair <<kind, index>>; memory maps the pointers  *)
(* of the allocated buffers to their contents.                             *)
(***************************************************************************)
nullptr == << "null", 0 >>
\* input_data[column]: the application's buffer of an original symbol
OrigPtr(column) == << "orig", column >>
\* The application's buffer holding the recovery symbol of a row
RecPtr(row) == << "rec", row >>
\* LaneSums[laneIndex][sumIndex].Data once allocated
LanePtr(laneIndex, sumIndex) == << "lane", laneIndex * kColumnSumCount + sumIndex >>
\* ProductWorkspace.Data once allocated
ProdPtr == << "prod", 0 >>

\* memory with the buffer at ptr replaced (or created)
Store(memory, ptr, bytes) == (ptr :> bytes) @@ memory

(***************************************************************************)
(* XORSummer (FECAL_ADD2_OPT is defined): a source is held back until a    *)
(* second one arrives, and is read only then.                              *)
(***************************************************************************)
XORSummerInitialize(dest, bytes) == [DestBuffer |-> dest, Bytes |-> bytes, Waiting |-> nullptr]

\* Add(src): the summer and the memory afterwards
XORSummerAdd(summer, memory, src) ==
    IF summer.Waiting # nullptr
    THEN [summer |-> [summer EXCEPT !.Waiting = nullptr],
          memory |-> Store(memory, summer.DestBuffer,
                           gf256_add2_mem(memory[summer.DestBuffer], memory[src],
                                          memory[summer.Waiting], summer.Bytes))]
    ELSE [summer |-> [summer EXCEPT !.Waiting = src], memory |-> memory]

\* Finalize(): the memory afterwards
XORSummerFinalize(summer, memory) ==
    IF summer.Waiting # nullptr
    THEN Store(memory, summer.DestBuffer,
               gf256_add_mem(memory[summer.DestBuffer], memory[summer.Waiting], summer.Bytes))
    ELSE memory

(***************************************************************************)
(* AppDataWindow                                                           *)
(***************************************************************************)
\* A SetParameters that takes a total_bytes below input_count
SetParametersAnyTotal(input_count, total_bytes) ==
    IF input_count <= 0
    THEN [ok |-> FALSE, InputCount |-> 0, TotalBytes |-> 0, SymbolBytes |-> 0, FinalBytes |-> 0]
    ELSE [ok |-> TRUE, InputCount |-> input_count, TotalBytes |-> total_bytes,
          SymbolBytes |-> (total_bytes + input_count - 1) \div input_count,
          FinalBytes |-> IF total_bytes % ((total_bytes + input_count - 1) \div input_count) <= 0
                         THEN (total_bytes + input_count - 1) \div input_count
                         ELSE total_bytes % ((total_bytes + input_count - 1) \div input_count)]

\* SetParameters(input_count, total_bytes): ok = FALSE when it returns false
SetParameters(input_count, total_bytes) ==
    IF input_count <= 0 \/ total_bytes < input_count
    THEN [ok |-> FALSE, InputCount |-> 0, TotalBytes |-> 0, SymbolBytes |-> 0, FinalBytes |-> 0]
    ELSE LET symbolBytes == (total_bytes + input_count - 1) \div input_count
             finalBytes  == total_bytes % symbolBytes
         IN  [ok |-> TRUE, InputCount |-> input_count, TotalBytes |-> total_bytes,
              SymbolBytes |-> symbolBytes,
              FinalBytes |-> IF finalBytes <= 0 THEN symbolBytes ELSE finalBytes]


(***************************************************************************)
(* SetParameters at the widths of the code: input_count is an unsigned of  *)
(* 32 bits, total_bytes a uint64_t.  A uint64_t is a tuple of four 16-bit  *)
(* limbs, the least significant first.                                     *)
(***************************************************************************)
Limb == 65536
WideZero == << 0, 0, 0, 0 >>
\* The uint64_t of a value below 2^31
Wide(n) == << n % Limb, (n \div Limb) % Limb, 0, 0 >>
\* static_cast<unsigned>(a)
Low32(a) == << a[1], a[2], 0, 0 >>

\* a < b
WideLess(a, b) ==
    \/ a[4] < b[4]
    \/ a[4] = b[4] /\ a[3] < b[3]
    \/ a[4] = b[4] /\ a[3] = b[3] /\ a[2] < b[2]
    \/ a[4] = b[4] /\ a[3] = b[3] /\ a[2] = b[2] /\ a[1] < b[1]

\* a + b on uint64_t
RECURSIVE WideCarry(_, _, _)
WideCarry(a, b, n) == IF n = 0 THEN 0 ELSE (a[n] + b[n] + WideCarry(a, b, n - 1)) \div Limb
WideAdd(a, b) == AsTuple([n \in 1..4 |-> (a[n] + b[n] + WideCarry(a, b, n - 1)) % Limb])

\* a - b on uint64_t
RECURSIVE WideBorrow(_, _, _)
WideBorrow(a, b, n) ==
    IF n = 0 THEN 0 ELSE IF a[n] - b[n] - WideBorrow(a, b, n - 1) < 0 THEN 1 ELSE 0
WideSub(a, b) == AsTuple([n \in 1..4 |-> (a[n] - b[n] - WideBorrow(a, b, n - 1) + Limb) % Limb])

\* a * k on uint64_t, for k below 2^15
RECURSIVE WideMulCarry(_, _, _)
WideMulCarry(a, k, n) == IF n = 0 THEN 0 ELSE (a[n] * k + WideMulCarry(a, k, n - 1)) \div Limb
WideMul(a, k) == AsTuple([n \in 1..4 |-> (a[n] * k + WideMulCarry(a, k, n - 1)) % Limb])

\* Bit i of a
WideBit(a, i) == (a[(i \div 16) + 1] \div (2 ^ (i % 16))) % 2
\* a with bit i, which is clear, set
WideSetBit(a, i) == [a EXCEPT ![(i \div 16) + 1] = @ + 2 ^ (i % 16)]

\* One step of the division of a by d: the remainder r2 so far takes the next bit of the quotient q
WideDivideStep(d, i, q, r2) ==
    IF WideLess(r2, d) THEN << q, r2 >> ELSE << WideSetBit(q, i), WideSub(r2, d) >>

\* The division of a by d takes bit i of a: s is the quotient and the remainder so far
WideDivideBit(a, d, i, s) ==
    WideDivideStep(d, i, s[1], WideAdd(WideAdd(s[2], s[2]), << WideBit(a, i), 0, 0, 0 >>))

\* The division of a by d takes the bits high down to low of a, the upper half first
RECURSIVE WideDivideBits(_, _, _, _, _)
WideDivideLower(a, d, high, low, s) == Strict(s, WideDivideBits(a, d, high, low, s))
WideDivideBits(a, d, high, low, s) ==
    IF high = low THEN WideDivideBit(a, d, high, s)
    ELSE WideDivideLower(a, d, low + (high - low) \div 2, low,
                         WideDivideBits(a, d, high, low + (high - low) \div 2 + 1, s))

\* a / d and a % d on uint64_t, for d # 0 below 2^32
WideDivide(a, d) ==
    [quotient |-> WideDivideBits(a, d, 63, 0, << WideZero, WideZero >>)[1],
     remainder |-> WideDivideBits(a, d, 63, 0, << WideZero, WideZero >>)[2]]

\* What SetParameters leaves: ok = FALSE when it returns false, fault when it has not returned
Parameters(ok, fault, input_count, total_bytes, symbolBytes, finalBytes) ==
    [ok |-> ok, fault |-> fault, InputCount |-> input_count, TotalBytes |-> total_bytes,
     SymbolBytes |-> symbolBytes, FinalBytes |-> finalBytes]

\* SetParameters from FinalBytes = static_cast<unsigned>(total_bytes % SymbolBytes) on
SetFinalBytes(input_count, total_bytes, symbolBytes, finalBytes) ==
    Parameters(TRUE, FALSE, input_count, total_bytes, symbolBytes,
               IF finalBytes = WideZero THEN symbolBytes ELSE finalBytes)

\* SetParameters from SymbolBytes on.  total_bytes % 0 is undefined: the division traps, or
\* it yields total_bytes
SetSymbolBytes(input_count, total_bytes, symbolBytes) ==
    IF symbolBytes = WideZero
    THEN {Parameters(FALSE, TRUE, input_count, total_bytes, symbolBytes, WideZero),
          SetFinalBytes(input_count, total_bytes, symbolBytes, Low32(total_bytes))}
    ELSE {SetFinalBytes(input_count, total_bytes, symbolBytes,
                        Low32(WideDivide(total_bytes, symbolBytes).remainder))}

\* AppDataWindow::SetParameters(input_count, total_bytes) with total_bytes a uint64_t: the
\* outcomes it can have
SetParametersWide(input_count, total_bytes) ==
    IF input_count <= 0 \/ WideLess(total_bytes, Wide(input_count))
    THEN {Parameters(FALSE, FALSE, 0, WideZero, WideZero, WideZero)}
    ELSE SetSymbolBytes(input_count, total_bytes,
             Low32(WideDivide(WideAdd(total_bytes, Wide(input_count - 1)),
                              Wide(input_count)).quotient))

IsFinalColumn(W, column) == column = W.InputCount - 1
\* A column length that is SymbolBytes for every column
GetSymbolBytes(W, column) == W.SymbolBytes

GetColumnBytes(W, column) == IF IsFinalColumn(W, column) THEN W.FinalBytes ELSE W.SymbolBytes

(***************************************************************************)
(* FecalResult                                                             *)
(***************************************************************************)
Fecal_NeedMoreData == 1
Fecal_Success == 0
Fecal_InvalidInput == -1
Fecal_OutOfMemory == -3

(***************************************************************************)
(* Encoder                                                                 *)
(***************************************************************************)
\* Encoder-owned buffers
EncLanePtr(laneIndex, sumIndex) == << "elane", laneIndex * kColumnSumCount + sumIndex >>
EncProdPtr == << "eprod", 0 >>

\* The lane-sum additions of one row in the order of the lane loop: for each
\* lane, bits 0..2 of the opcode (sums into the output), then bits 3..5 (sums
\* into the product workspace)
LaneOp(n) == [lane |-> n \div (2 * kColumnSumCount), bit |-> n % (2 * kColumnSumCount)]
LaneOpsOf(set) ==
    AsTuple([k \in 1..Cardinality(set) |-> LaneOp(CHOOSE n \in set : Cardinality({m \in set : m < n}) = k - 1)])
LaneOpsCalc(row) ==
    LaneOpsOf({n \in 0..(kColumnLaneCount * 2 * kColumnSumCount - 1) :
                 Bit(GetRowOpcode(n \div (2 * kColumnSumCount), row), n % (2 * kColumnSumCount)) = 1})

LaneOpsTable == AsTuple([r \in 1..TableRows |-> LaneOpsCalc(r - 1)])
LaneOps(row) == LaneOpsTable[row + 1]

\* Encoder::Initialize, Sum[0] of one lane: for (column = laneIndex; column < columnEnd; column += 8) sum.Add(...)
RECURSIVE EncSum0Columns(_, _, _, _)
EncSum0Added(added, column, columnEnd) ==
    Strict(added, EncSum0Columns(added.summer, added.memory, column + kColumnLaneCount, columnEnd))
EncSum0Columns(summer, memory, column, columnEnd) ==
    IF column >= columnEnd THEN [summer |-> summer, memory |-> memory]
    ELSE EncSum0Added(XORSummerAdd(summer, memory, OrigPtr(column)), column, columnEnd)

\* Encoder::Initialize, one lane after its column loop: the final column, then sum.Finalize()
EncSum0Final(W, summed, laneIndex, columnEnd) ==
    XORSummerFinalize(summed.summer,
        IF columnEnd % kColumnLaneCount = laneIndex
        THEN Store(summed.memory, EncLanePtr(laneIndex, 0),
                   gf256_add_mem(summed.memory[EncLanePtr(laneIndex, 0)], summed.memory[OrigPtr(columnEnd)],
                                 W.FinalBytes))
        ELSE summed.memory)

\* Encoder::Initialize, the FECAL_ADD2_ENC_SETUP_OPT loop over the lanes
RECURSIVE EncSum0Lanes(_, _, _)
EncSum0Lane(W, memory, laneIndex) == Strict(memory, EncSum0Lanes(W, memory, laneIndex + 1))
EncSum0Lanes(W, memory, laneIndex) ==
    IF laneIndex >= kColumnLaneCount THEN memory
    ELSE EncSum0Lane(W,
             EncSum0Final(W,
                 EncSum0Columns(XORSummerInitialize(EncLanePtr(laneIndex, 0), W.SymbolBytes), memory,
                                laneIndex, W.InputCount - 1),
                 laneIndex, W.InputCount - 1),
             laneIndex)

\* gf256_muladd_mem(dest, y, input_data[column], columnBytes) on the buffers in memory
MulAddColumn(W, memory, dest, y, column) ==
    Store(memory, dest, gf256_muladd_mem(memory[dest], y, memory[OrigPtr(column)], GetColumnBytes(W, column)))

\* Encoder::Initialize, the loop over the input columns: Sum[1] += CX * Data, Sum[2] += CX^2 * Data
RECURSIVE EncSum12Columns(_, _, _)
EncSum12Column(W, memory, column) == Strict(memory, EncSum12Columns(W, memory, column + 1))
EncSum12Columns(W, memory, column) ==
    IF column >= W.InputCount THEN memory
    ELSE EncSum12Column(W,
             MulAddColumn(W,
                 MulAddColumn(W, memory, EncLanePtr(column % kColumnLaneCount, 1), GetColumnValue(column), column),
                 EncLanePtr(column % kColumnLaneCount, 2), gf256_sqr(GetColumnValue(column)), column),
             column)

\* Encoder::Initialize for accepted parameters: the lane sums and the workspace are allocated and zeroed
EncoderInitialized(W, memory) ==
    [result |-> Fecal_Success, Window |-> W, ProductWorkspace |-> EncProdPtr,
     memory |-> EncSum12Columns(W, EncSum0Lanes(W,
                    [q \in {EncLanePtr(l, x) : l \in 0..(kColumnLaneCount - 1), x \in 0..(kColumnSumCount - 1)}
                           \cup {EncProdPtr} |-> ZeroBuffer(W.SymbolBytes)] @@ memory, 0), 0)]

\* Encoder::Initialize after SetParameters
EncoderInitializeWindow(W, memory) ==
    IF ~W.ok
    THEN [result |-> Fecal_InvalidInput, Window |-> W, ProductWorkspace |-> nullptr, memory |-> memory]
    ELSE EncoderInitialized(W, memory)

\* Encoder::Initialize(input_count, input_data, total_bytes), every allocation succeeding;
\* memory holds the input_data buffers
EncoderInitialize(input_count, total_bytes, memory) ==
    EncoderInitializeWindow(SetParameters(input_count, total_bytes), memory)

\* An Encode that adds the first column to what dest holds, where the code copies it
EncAddColumn(W, memory, dest, element) ==
    Store(memory, dest, gf256_add_mem(memory[dest], memory[OrigPtr(element)], GetColumnBytes(W, element)))

\* memcpy(dest, src, FinalBytes); memset(dest + FinalBytes, 0, symbolBytes - FinalBytes) for the
\* final column, memcpy(dest, src, symbolBytes) otherwise
EncCopyColumn(W, memory, dest, element) ==
    Store(memory, dest,
          AsTuple([i \in 1..Len(memory[dest]) |->
              IF i > W.SymbolBytes THEN memory[dest][i]
              ELSE IF IsFinalColumn(W, element)
              THEN (IF i <= W.FinalBytes THEN memory[OrigPtr(element)][i] ELSE 0)
              ELSE memory[OrigPtr(element)][i]]))

\* Encoder::Encode, one element of a pair: gf256_add_mem of FinalBytes for the final column, else summer.Add
EncAddElement(W, summer, memory, element) ==
    IF IsFinalColumn(W, element)
    THEN [summer |-> summer,
          memory |-> Store(memory, summer.DestBuffer,
                           gf256_add_mem(memory[summer.DestBuffer], memory[OrigPtr(element)], W.FinalBytes))]
    ELSE XORSummerAdd(summer, memory, OrigPtr(element))

\* Encoder::Encode, the loop over the pairs i = 1..pairCount-1
RECURSIVE EncPairs(_, _, _, _, _, _)
EncPairRX(W, pairs, i, sum, added) ==
    Strict(added, EncPairs(W, pairs, i + 1, sum, added.summer, added.memory))
EncPair1(W, pairs, i, prod, added) ==
    EncPairRX(W, pairs, i, added.summer, EncAddElement(W, prod, added.memory, pairs[i].elementRX))
EncPairs(W, pairs, i, sum, prod, memory) ==
    IF i > Len(pairs) THEN [sum |-> sum, prod |-> prod, memory |-> memory]
    ELSE EncPair1(W, pairs, i, prod, EncAddElement(W, sum, memory, pairs[i].element1))

\* Encoder::Encode, the loop over the lanes
RECURSIVE EncLanes(_, _, _, _, _)
EncLaneSum(ops, i, prod, added) == Strict(added, EncLanes(ops, i + 1, added.summer, prod, added.memory))
EncLaneProd(ops, i, sum, added) == Strict(added, EncLanes(ops, i + 1, sum, added.summer, added.memory))
EncLanes(ops, i, sum, prod, memory) ==
    IF i > Len(ops) THEN [sum |-> sum, prod |-> prod, memory |-> memory]
    ELSE IF ops[i].bit < kColumnSumCount
         THEN EncLaneSum(ops, i, prod, XORSummerAdd(sum, memory, EncLanePtr(ops[i].lane, ops[i].bit)))
         ELSE EncLaneProd(ops, i, sum, XORSummerAdd(prod, memory, EncLanePtr(ops[i].lane, ops[i].bit - kColumnSumCount)))

\* Encoder::Encode, the end: sum.Finalize(); prod.Finalize(); gf256_muladd_mem(outputSum, RX, outputProduct)
EncFinalized(W, memory, outputSum, outputProduct, row) ==
    [result |-> Fecal_Success,
     memory |-> Store(memory, outputSum,
                      gf256_muladd_mem(memory[outputSum], GetRowValue(row), memory[outputProduct], W.SymbolBytes))]
EncFinalize(W, summed, outputSum, outputProduct, row) ==
    EncFinalized(W, XORSummerFinalize(summed.prod, XORSummerFinalize(summed.sum, summed.memory)),
                 outputSum, outputProduct, row)

\* Encoder::Encode, the lanes after the pairs
EncAfterPairs(W, paired, outputSum, outputProduct, row) ==
    EncFinalize(W, EncLanes(LaneOps(row), 1, paired.sum, paired.prod, paired.memory), outputSum, outputProduct, row)

\* Encoder::Encode with the pairs of the row drawn
EncodePairs(W, memory, pairs, outputSum, outputProduct, row) ==
    EncAfterPairs(W,
        EncPairs(W, pairs, 2, XORSummerInitialize(outputSum, W.SymbolBytes),
                 XORSummerInitialize(outputProduct, W.SymbolBytes),
                 EncCopyColumn(W, EncCopyColumn(W, memory, outputSum, pairs[1].element1),
                               outputProduct, pairs[1].elementRX)),
        outputSum, outputProduct, row)

\* An Encode that takes a buffer of more bytes than a symbol has
EncodeLonger(E, memory, symbol) ==
    IF E.ProductWorkspace = nullptr \/ symbol.Bytes < E.Window.SymbolBytes
    THEN [result |-> Fecal_InvalidInput, memory |-> memory]
    ELSE EncodePairs(E.Window, memory, PairDraws(symbol.Index, E.Window.InputCount),
                     symbol.Data, E.ProductWorkspace, symbol.Index)

\* Encoder::Encode(symbol) on an encoder E = [Window, ProductWorkspace]
Encode(E, memory, symbol) ==
    IF E.ProductWorkspace = nullptr \/ symbol.Bytes # E.Window.SymbolBytes
    THEN [result |-> Fecal_InvalidInput, memory |-> memory]
    ELSE EncodePairs(E.Window, memory, PairDraws(symbol.Index, E.Window.InputCount),
                     symbol.Data, E.ProductWorkspace, symbol.Index)

(***************************************************************************)
(* DecoderAppDataWindow                                                    *)
(***************************************************************************)
kSubwindowSize == kColumnLaneCount * 8

\* C arrays are sequences: element i of the array is element i + 1 of the sequence
At(array, i) == array[i + 1]

\* A FindFirstClear that looks from the first bit of the word on
FindFirstClearOfWord(Got, bitStart) ==
    IF 0..(kSubwindowSize - 1) \subseteq Got THEN kSubwindowSize
    ELSE CHOOSE b \in 0..(kSubwindowSize - 1) : b \notin Got /\ \A c \in 0..(b - 1) : c \in Got

\* CustomBitSet<kSubwindowSize>::FindFirstClear(bitStart); Got is the set of the bits that are set
FindFirstClear(Got, bitStart) ==
    LET clear == {b \in bitStart..(kSubwindowSize - 1) : b \notin Got}
    IN  IF clear = {} THEN kSubwindowSize
        ELSE CHOOSE b \in clear : \A c \in clear : b <= c

\* A default-constructed DecoderAppDataWindow
NewWindow ==
    [InputCount |-> 0, TotalBytes |-> 0, FinalBytes |-> 0, SymbolBytes |-> 0,
     OriginalData |-> << >>, RecoveryData |-> << >>, SubwindowCount |-> 0, Subwindows |-> << >>,
     OriginalGotCount |-> 0, RowSet |-> {}]

\* DecoderAppDataWindow::AllocateOriginals
AllocateOriginals(W) ==
    LET count == (W.InputCount + kSubwindowSize - 1) \div kSubwindowSize
    IN  [W EXCEPT !.OriginalData = AsTuple([c \in 1..W.InputCount |-> [Data |-> nullptr, RecoveryMatrixColumn |-> 0]]),
                  !.SubwindowCount = count,
                  !.Subwindows = AsTuple([n \in 1..count |-> [Got |-> {}, GotCount |-> 0]])]

\* DecoderAppDataWindow::MarkGotElement
MarkGotElement(W, element) ==
    LET n == (element \div kSubwindowSize) + 1
    IN  [W EXCEPT !.Subwindows[n].Got = @ \cup {element % kSubwindowSize},
                  !.Subwindows[n].GotCount = @ + 1]

\* An AddOriginal that records the column whether or not it has data
WindowAddOriginalAgain(W, column, data) ==
    [added |-> TRUE,
     Window |-> [MarkGotElement([W EXCEPT !.OriginalData[column + 1].Data = data], column)
                    EXCEPT !.OriginalGotCount = @ + 1]]

\* DecoderAppDataWindow::AddOriginal: added = FALSE when it returns false
WindowAddOriginal(W, column, data) ==
    IF At(W.OriginalData, column).Data # nullptr
    THEN [added |-> FALSE, Window |-> W]
    ELSE [added |-> TRUE,
          Window |-> [MarkGotElement([W EXCEPT !.OriginalData[column + 1].Data = data], column)
                         EXCEPT !.OriginalGotCount = @ + 1]]

\* An AddRecovery that keeps no symbol
WindowAddRecoveryDropped(W, data, row) == [added |-> FALSE, Window |-> W]

\* DecoderAppDataWindow::AddRecovery: added = FALSE when it returns false
WindowAddRecovery(W, data, row) ==
    IF row \in W.RowSet
    THEN [added |-> FALSE, Window |-> W]
    ELSE [added |-> TRUE,
          Window |-> [W EXCEPT !.RowSet = @ \cup {row},
                               !.RecoveryData = Append(@, [Data |-> data, Row |-> row, UsedForSolution |-> FALSE])]]

\* DecoderAppDataWindow::FindNextLostElement, the while loop from subwindowIndex on
RECURSIVE FindNextLostFrom(_, _, _)
FindNextLostFrom(W, subwindowIndex, bitIndex) ==
    IF subwindowIndex >= W.SubwindowCount THEN W.InputCount
    ELSE LET subwindow == At(W.Subwindows, subwindowIndex)
             found == FindFirstClear(subwindow.Got, bitIndex)
             nextElement == subwindowIndex * kSubwindowSize + found
         IN  IF subwindow.GotCount < kSubwindowSize /\ found < kSubwindowSize
             THEN (IF nextElement > W.InputCount THEN W.InputCount ELSE nextElement)
             ELSE FindNextLostFrom(W, subwindowIndex + 1, 0)

\* DecoderAppDataWindow::FindNextLostElement, the value of nextElement before the test
\* nextElement > InputCount, and InputCount where the loop finds no clear bit
RECURSIVE NextElementFrom(_, _, _)
NextElementFrom(W, subwindowIndex, bitIndex) ==
    IF subwindowIndex >= W.SubwindowCount THEN W.InputCount
    ELSE IF /\ At(W.Subwindows, subwindowIndex).GotCount < kSubwindowSize
            /\ FindFirstClear(At(W.Subwindows, subwindowIndex).Got, bitIndex) < kSubwindowSize
    THEN subwindowIndex * kSubwindowSize + FindFirstClear(At(W.Subwindows, subwindowIndex).Got, bitIndex)
    ELSE NextElementFrom(W, subwindowIndex + 1, 0)

\* DecoderAppDataWindow::FindNextLostElement
FindNextLostElement(W, elementStart) ==
    IF elementStart >= W.InputCount THEN W.InputCount
    ELSE FindNextLostFrom(W, elementStart \div kSubwindowSize, elementStart % kSubwindowSize)

(***************************************************************************)
(* GrowingAlignedByteMatrix: Data points to a buffer of AllocatedRows rows *)
(* of AllocatedColumns bytes, row after row.                               *)
(***************************************************************************)
kExtraRows == 4
kMinExtraColumns == 4
\* GF256_ALIGN_BYTES
kAlignmentBytes == 16

NextAlignedOffset(offset) == ((offset + kAlignmentBytes - 1) \div kAlignmentBytes) * kAlignmentBytes

\* The buffer of the recovery matrix
MatrixPtr == << "matrix", 0 >>

\* SIMDSafeFree(ptr)
Free(memory, ptr) ==
    IF ptr \in DOMAIN memory THEN [q \in DOMAIN memory \ {ptr} |-> memory[q]] ELSE memory

\* A default-constructed GrowingAlignedByteMatrix
NewMatrix == [Data |-> nullptr, Rows |-> 0, Columns |-> 0, AllocatedRows |-> 0, AllocatedColumns |-> 0]

\* GrowingAlignedByteMatrix::Initialize(rows, columns); allocated = FALSE when SIMDSafeAllocate returns nullptr
MatrixInitialize(M, memory, rows, columns, allocated) ==
    LET allocatedRows == rows + kExtraRows
        allocatedColumns == NextAlignedOffset(columns + kMinExtraColumns)
        M1 == [M EXCEPT !.Rows = rows, !.Columns = columns,
                        !.AllocatedRows = allocatedRows, !.AllocatedColumns = allocatedColumns]
    IN  IF allocated
        THEN [ok |-> TRUE, Matrix |-> [M1 EXCEPT !.Data = MatrixPtr],
              memory |-> Store(memory, MatrixPtr, ZeroBuffer(allocatedRows * allocatedColumns))]
        ELSE [ok |-> FALSE, Matrix |-> [M1 EXCEPT !.Data = nullptr], memory |-> Free(memory, M.Data)]

\* A Resize that does not maintain the old data when it allocates
MatrixResizeUncopied(M, memory, rows, columns, allocated) ==
    IF rows <= M.AllocatedRows /\ columns <= M.AllocatedColumns
    THEN [ok |-> TRUE, Matrix |-> [M EXCEPT !.Rows = rows, !.Columns = columns], memory |-> memory]
    ELSE MatrixInitialize(M, memory, rows, columns, allocated)

\* GrowingAlignedByteMatrix::Resize(rows, columns)
MatrixResize(M, memory, rows, columns, allocated) ==
    IF rows <= M.AllocatedRows /\ columns <= M.AllocatedColumns
    THEN [ok |-> TRUE, Matrix |-> [M EXCEPT !.Rows = rows, !.Columns = columns], memory |-> memory]
    ELSE LET allocatedRows == rows + kExtraRows
             allocatedColumns == NextAlignedOffset(columns + kMinExtraColumns)
             copyCount == IF M.Columns > columns THEN columns ELSE M.Columns
             buffer == AsTuple([k \in 1..(allocatedRows * allocatedColumns) |->
                           IF /\ M.Data # nullptr
                              /\ (k - 1) \div allocatedColumns < M.Rows
                              /\ (k - 1) % allocatedColumns < copyCount
                           THEN memory[M.Data][((k - 1) \div allocatedColumns) * M.AllocatedColumns
                                               + ((k - 1) % allocatedColumns) + 1]
                           ELSE 0])
         IN  IF ~allocated
             THEN [ok |-> FALSE,
                   Matrix |-> IF M.Data # nullptr
                              THEN [M EXCEPT !.Data = nullptr, !.AllocatedRows = 0, !.AllocatedColumns = 0]
                              ELSE M,
                   memory |-> Free(memory, M.Data)]
             ELSE [ok |-> TRUE,
                   Matrix |-> [Data |-> MatrixPtr, Rows |-> rows, Columns |-> columns,
                               AllocatedRows |-> allocatedRows, AllocatedColumns |-> allocatedColumns],
                   memory |-> Store(memory, MatrixPtr, buffer)]

\* GrowingAlignedByteMatrix::Get(row, column)
MatrixGet(M, memory, row, column) == memory[M.Data][row * M.AllocatedColumns + column + 1]

(***************************************************************************)
(* RecoveryMatrixState.  The elimination works on data, the bytes of the   *)
(* matrix buffer; ge_row and rem_row are the offsets of two rows in it.    *)
(***************************************************************************)
\* A default-constructed RecoveryMatrixState
NewRecoveryMatrix ==
    [Columns |-> << >>, Matrix |-> NewMatrix, Pivots |-> << >>, GEResumePivot |-> 0, FilledRows |-> 0]

\* RecoveryMatrixState::MulAddRows: rem_row[c] ^= ge_row[c] * y for columnStart <= c < columnEnd
MulAddRows(data, ge_row, rem_row, columnStart, columnEnd, y) ==
    AsTuple([k \in 1..Len(data) |->
        IF k - 1 - rem_row >= columnStart /\ k - 1 - rem_row < columnEnd
        THEN Xor8(data[k], gf256_mul(data[ge_row + (k - 1 - rem_row) + 1], y))
        ELSE data[k]])

\* RecoveryMatrixState::EliminateRow, val_j # 0: y is stored at the pivot column and the rest of
\* the row is eliminated
EliminateRowBy(data, ge_row, rem_row, pivot_i, columnEnd, y) ==
    MulAddRows([data EXCEPT ![rem_row + pivot_i + 1] = y], ge_row, rem_row, pivot_i + 1, columnEnd, y)

\* RecoveryMatrixState::EliminateRow
EliminateRow(data, ge_row, rem_row, pivot_i, columnEnd, val_i) ==
    IF data[rem_row + pivot_i + 1] = 0 THEN data
    ELSE EliminateRowBy(data, ge_row, rem_row, pivot_i, columnEnd,
                        gf256_div(data[rem_row + pivot_i + 1], val_i))

\* std::vector::resize(count): the first elements are kept, new ones are value-initialised
Resized(vector, count, value) ==
    AsTuple([k \in 1..count |-> IF k <= Len(vector) THEN vector[k] ELSE value])

\* RecoveryMatrixState::PopulateColumns, the loop from matrixColumn on
RECURSIVE PopulateFrom(_, _, _, _, _)
PopulateFrom(Columns, W, columns, matrixColumn, nextSearchColumn) ==
    IF matrixColumn >= columns THEN [Columns |-> Columns, Window |-> W]
    ELSE LET lostColumn == FindNextLostElement(W, nextSearchColumn)
         IN  IF lostColumn >= W.InputCount THEN [Columns |-> Columns, Window |-> W]
             ELSE PopulateFrom([Columns EXCEPT ![matrixColumn + 1] =
                                    [Column |-> lostColumn, CX |-> GetColumnValue(lostColumn)]],
                               [W EXCEPT !.OriginalData[lostColumn + 1].RecoveryMatrixColumn = matrixColumn],
                               columns, matrixColumn + 1, lostColumn + 1)

\* A PopulateColumns that does not write RecoveryMatrixColumn
PopulateColumnsOnly(RM, W, columns) ==
    [Columns |-> PopulateFrom(Resized(RM.Columns, columns, [Column |-> 0, CX |-> 0]), W, columns, 0, 0).Columns,
     Window |-> W]

\* RecoveryMatrixState::PopulateColumns(columns)
PopulateColumns(RM, W, columns) ==
    PopulateFrom(Resized(RM.Columns, columns, [Column |-> 0, CX |-> 0]), W, columns, 0, 0)

\* RecoveryMatrixState::GenerateMatrix, if (opcode & (1 << i)) value ^= ...
Selected(opcode, i, value) == IF Bit(opcode, i) = 1 THEN value ELSE 0

\* RecoveryMatrixState::GenerateMatrix, the value the opcode selects from CX, CX2 and RX
GeneratedFrom(opcode, CX, CX2, RX) ==
    Xor8(Xor8(Xor8(Bit(opcode, 0), Selected(opcode, 1, CX)),
              Xor8(Selected(opcode, 2, CX2), Selected(opcode, 3, RX))),
         Xor8(Selected(opcode, 4, gf256_mul(CX, RX)), Selected(opcode, 5, gf256_mul(CX2, RX))))

\* RecoveryMatrixState::GenerateMatrix, the value written to rowData[j]
GeneratedValue(columnInfo, row) ==
    GeneratedFrom(GetRowOpcode(columnInfo.Column % kColumnLaneCount, row),
                  columnInfo.CX, gf256_sqr(columnInfo.CX), GetRowValue(row))

\* A GenerateMatrix that skips the columns the pairs draw
XorAtNever(data, originalInfo, rowData, value) == data

\* RecoveryMatrixState::GenerateMatrix, if (!OriginalData[element].Data) rowData[matrixColumn] ^= value
XorAt(data, originalInfo, rowData, value) ==
    IF originalInfo.Data = nullptr
    THEN [data EXCEPT ![rowData + originalInfo.RecoveryMatrixColumn + 1] = Xor8(@, value)]
    ELSE data

\* RecoveryMatrixState::GenerateMatrix, the loop over the pairs of random columns of one row
RECURSIVE GeneratePairs(_, _, _, _, _, _)
GeneratePairsNext(data, rowData, W, pairs, k, RX) ==
    Strict(data, GeneratePairs(data, rowData, W, pairs, k + 1, RX))
GeneratePairs(data, rowData, W, pairs, k, RX) ==
    IF k > Len(pairs) THEN data
    ELSE GeneratePairsNext(XorAt(XorAt(data, At(W.OriginalData, pairs[k].element1), rowData, 1),
                                 At(W.OriginalData, pairs[k].elementRX), rowData, RX),
                           rowData, W, pairs, k, RX)

\* RecoveryMatrixState::GenerateMatrix, the loop that fills the columns of one row from the left
FilledRow(data, rowData, Columns, row) ==
    AsTuple([k \in 1..Len(data) |->
        IF k - 1 - rowData >= 0 /\ k - 1 - rowData < Len(Columns)
        THEN GeneratedValue(Columns[k - rowData], row)
        ELSE data[k]])

\* RecoveryMatrixState::GenerateMatrix, the body of the loop over the rows to fill
GenerateRow(data, rowData, Columns, W, row) ==
    GeneratePairs(FilledRow(data, rowData, Columns, row), rowData, W,
                  PairDraws(row, W.InputCount), 1, GetRowValue(row))

\* RecoveryMatrixState::GenerateMatrix, the loop over the rows to fill, from row ii on
RECURSIVE GenerateRows(_, _, _, _, _, _)
GenerateRowsNext(data, stride, Columns, W, ii, rows) ==
    Strict(data, GenerateRows(data, stride, Columns, W, ii + 1, rows))
GenerateRows(data, stride, Columns, W, ii, rows) ==
    IF ii >= rows THEN data
    ELSE GenerateRowsNext(GenerateRow(data, ii * stride, Columns, W, At(W.RecoveryData, ii).Row),
                          stride, Columns, W, ii, rows)

\* RecoveryMatrixState::ResumeGE, the loop over the new rows for one pivot;
\* also the loops over the remaining rows of GaussianElimination, where rowOf[r] = r - 1
RECURSIVE EliminateRows(_, _, _, _, _, _, _, _, _)
EliminateRowsNext(data, rowOf, stride, ge_row, pivot_i, columns, val_i, index, rows) ==
    Strict(data, EliminateRows(data, rowOf, stride, ge_row, pivot_i, columns, val_i, index + 1, rows))
EliminateRows(data, rowOf, stride, ge_row, pivot_i, columns, val_i, index, rows) ==
    IF index >= rows THEN data
    ELSE EliminateRowsNext(EliminateRow(data, ge_row, stride * At(rowOf, index), pivot_i, columns, val_i),
                           rowOf, stride, ge_row, pivot_i, columns, val_i, index, rows)

\* The rows in storage order: matrix row r is row r
Identity(rows) == AsTuple([r \in 1..rows |-> r - 1])

\* RecoveryMatrixState::ResumeGE, the body of the loop over the pivots: the new rows are
\* eliminated with the row of pivot_i
ResumePivot(data, RM, ge_row, pivot_i, oldRows, rows) ==
    EliminateRows(data, Identity(rows), RM.Matrix.AllocatedColumns, ge_row, pivot_i,
                  RM.Matrix.Columns, data[ge_row + pivot_i + 1], oldRows, rows)

\* RecoveryMatrixState::ResumeGE, the loop over the pivots determined already
RECURSIVE ResumePivots(_, _, _, _, _)
ResumePivotsNext(data, RM, pivot_i, oldRows, rows) ==
    Strict(data, ResumePivots(data, RM, pivot_i + 1, oldRows, rows))
ResumePivots(data, RM, pivot_i, oldRows, rows) ==
    IF pivot_i >= RM.GEResumePivot THEN data
    ELSE ResumePivotsNext(ResumePivot(data, RM, RM.Matrix.AllocatedColumns * At(RM.Pivots, pivot_i),
                                      pivot_i, oldRows, rows),
                          RM, pivot_i, oldRows, rows)

\* RecoveryMatrixState::ResumeGE(oldRows, rows)
ResumeGE(data, RM, oldRows, rows) ==
    IF oldRows >= rows THEN data ELSE ResumePivots(data, RM, 0, oldRows, rows)

\* What GenerateMatrix returns: ok = its result, fault = it wrote through a null Matrix.Data
Generated(ok, fault, RM, W, memory) ==
    [ok |-> ok, fault |-> fault, RecoveryMatrix |-> RM, Window |-> W, memory |-> memory]

\* RecoveryMatrixState::GenerateMatrix, Pivots.resize(rows) and Pivots[i] = i from FilledRows on
ResizedPivots(Pivots, FilledRows, rows) ==
    AsTuple([k \in 1..rows |->
        IF k - 1 >= FilledRows THEN k - 1 ELSE IF k > Len(Pivots) THEN 0 ELSE Pivots[k]])

\* RecoveryMatrixState::GenerateMatrix, from ResumeGE to the end; RM holds the resized Pivots
GenerateResumed(RM, W, memory, data, rows) ==
    Generated(TRUE, FALSE, [RM EXCEPT !.FilledRows = rows], W,
              Store(memory, MatrixPtr,
                    IF RM.GEResumePivot > 0 THEN ResumeGE(data, RM, RM.FilledRows, rows) ELSE data))

\* RecoveryMatrixState::GenerateMatrix, the rows are filled and the pivots resized
GenerateFilled(RM, W, memory, rows) ==
    GenerateResumed([RM EXCEPT !.Pivots = ResizedPivots(RM.Pivots, RM.FilledRows, rows)], W, memory,
                    GenerateRows(memory[MatrixPtr], RM.Matrix.AllocatedColumns, RM.Columns, W,
                                 RM.FilledRows, rows),
                    rows)

\* RecoveryMatrixState::GenerateMatrix once Matrix.Initialize or Matrix.Resize has returned m
GenerateAllocated(RM, W, m, rows) ==
    IF ~m.ok THEN Generated(FALSE, FALSE, [RM EXCEPT !.Matrix = m.Matrix], W, m.memory)
    ELSE IF m.Matrix.Data = nullptr
    THEN Generated(FALSE, TRUE, [RM EXCEPT !.Matrix = m.Matrix], W, m.memory)
    ELSE GenerateFilled([RM EXCEPT !.Matrix = m.Matrix], W, m.memory, rows)

\* A GenerateMatrix that keeps the pivots, the resume pivot and the count of filled rows when
\* the column count has changed
GenerateUnreset(RM, populated, memory, rows, columns, allocated) ==
    GenerateAllocated([RM EXCEPT !.Columns = populated.Columns], populated.Window,
                      MatrixInitialize(RM.Matrix, memory, rows, columns, allocated), rows)

\* RecoveryMatrixState::GenerateMatrix, the column count changed: populated holds the new Columns
GenerateChanged(RM, populated, memory, rows, columns, allocated) ==
    GenerateAllocated([RM EXCEPT !.Columns = populated.Columns, !.Pivots = << >>,
                                 !.GEResumePivot = 0, !.FilledRows = 0],
                      populated.Window,
                      MatrixInitialize(RM.Matrix, memory, rows, columns, allocated), rows)

\* RecoveryMatrixState::GenerateMatrix for the given counts of rows and columns
GenerateSized(RM, W, memory, rows, columns, allocated) ==
    IF columns # Len(RM.Columns)
    THEN GenerateChanged(RM, PopulateColumns(RM, W, columns), memory, rows, columns, allocated)
    ELSE GenerateAllocated(RM, W, MatrixResize(RM.Matrix, memory, rows, columns, allocated), rows)

\* RecoveryMatrixState::GenerateMatrix; allocated = FALSE when the allocation it makes fails.
\* fault: the rows are written through a null Matrix.Data, which ends the process
GenerateMatrix(RM, W, memory, allocated) ==
    GenerateSized(RM, W, memory, Len(W.RecoveryData), W.InputCount - W.OriginalGotCount, allocated)

\* W with RecoveryData[matrixRowIndex].UsedForSolution = true
MarkUsed(W, matrixRowIndex) == [W EXCEPT !.RecoveryData[matrixRowIndex + 1].UsedForSolution = TRUE]

\* What the elimination returns: ok = its result, data = the bytes of the matrix buffer
Eliminated(ok, RM, W, data) == [ok |-> ok, RecoveryMatrix |-> RM, Window |-> W, data |-> data]

\* A PivotedGaussianElimination that leaves Pivots as it is
UnswappedPivots(Pivots, pivot_i, pivot_j) == Pivots

\* RecoveryMatrixState::PivotedGaussianElimination, the swap of Pivots[pivot_i] and Pivots[pivot_j]
SwappedPivots(Pivots, pivot_i, pivot_j) ==
    [Pivots EXCEPT ![pivot_i + 1] = Pivots[pivot_j + 1], ![pivot_j + 1] = Pivots[pivot_i + 1]]

\* RecoveryMatrixState::PivotedGaussianElimination from the label UsePivoting on
RECURSIVE UsePivoting(_, _, _, _, _)

\* PivotedGaussianElimination, goto NextPivot: the remaining rows are eliminated
PivotEliminated(RM, W, data, pivot_i) ==
    IF pivot_i + 1 < RM.Matrix.Columns
    THEN Strict(data, UsePivoting(RM, W, data, pivot_i + 1, pivot_i + 1))
    ELSE Eliminated(TRUE, RM, W, data)

\* PivotedGaussianElimination, a row with val_i # 0 is found: the pivots are swapped and the row
\* is marked in RM and W
PivotFound(RM, W, data, pivot_i, ge_row, val_i) ==
    IF pivot_i >= RM.Matrix.Columns - 1 THEN Eliminated(TRUE, RM, W, data)
    ELSE PivotEliminated(RM, W,
                         EliminateRows(data, RM.Pivots, RM.Matrix.AllocatedColumns, ge_row, pivot_i,
                                       RM.Matrix.Columns, val_i, pivot_i + 1, RM.Matrix.Rows),
                         pivot_i)

\* PivotedGaussianElimination, the body of the loop over pivot_j
PivotTried(RM, W, data, pivot_i, pivot_j, matrixRowIndex_j, val_i) ==
    IF val_i = 0 THEN UsePivoting(RM, W, data, pivot_i, pivot_j + 1)
    ELSE PivotFound([RM EXCEPT !.Pivots = SwappedPivots(@, pivot_i, pivot_j)],
                    MarkUsed(W, matrixRowIndex_j), data, pivot_i,
                    RM.Matrix.AllocatedColumns * matrixRowIndex_j, val_i)

\* PivotedGaussianElimination, the row Pivots[pivot_j] is tried as the pivot row
PivotCandidate(RM, W, data, pivot_i, pivot_j, matrixRowIndex_j) ==
    PivotTried(RM, W, data, pivot_i, pivot_j, matrixRowIndex_j,
               data[RM.Matrix.AllocatedColumns * matrixRowIndex_j + pivot_i + 1])

\* A PivotedGaussianElimination that finds no pivot and resumes from pivot 0
UsePivotingAnew(RM, W, data, pivot_i, pivot_j) ==
    IF pivot_j >= RM.Matrix.Rows
    THEN Eliminated(FALSE, [RM EXCEPT !.GEResumePivot = 0], W, data)
    ELSE PivotCandidate(RM, W, data, pivot_i, pivot_j, At(RM.Pivots, pivot_j))

UsePivoting(RM, W, data, pivot_i, pivot_j) ==
    IF pivot_j >= RM.Matrix.Rows
    THEN Eliminated(FALSE, [RM EXCEPT !.GEResumePivot = pivot_i], W, data)
    ELSE PivotCandidate(RM, W, data, pivot_i, pivot_j, At(RM.Pivots, pivot_j))

\* A PivotedGaussianElimination that passes over the first candidate row
PivotedSkipping(RM, W, data, pivot_i) == UsePivoting(RM, W, data, pivot_i, pivot_i + 2)

\* RecoveryMatrixState::PivotedGaussianElimination(pivot_i)
PivotedGaussianElimination(RM, W, data, pivot_i) == UsePivoting(RM, W, data, pivot_i, pivot_i + 1)

\* RecoveryMatrixState::GaussianElimination, the loop without pivots from pivot_i on
RECURSIVE EliminateFrom(_, _, _, _)
EliminateFromNext(RM, W, data, pivot_i) == Strict(data, EliminateFrom(RM, W, data, pivot_i + 1))

\* RecoveryMatrixState::GaussianElimination, the body of the loop without pivots
EliminateWith(RM, W, data, pivot_i, ge_row, val_i) ==
    IF val_i = 0 THEN PivotedGaussianElimination(RM, W, data, pivot_i)
    ELSE EliminateFromNext(RM, MarkUsed(W, pivot_i),
                           EliminateRows(data, Identity(RM.Matrix.Rows), RM.Matrix.AllocatedColumns,
                                         ge_row, pivot_i, RM.Matrix.Columns, val_i,
                                         pivot_i + 1, RM.Matrix.Rows),
                           pivot_i)

EliminateFrom(RM, W, data, pivot_i) ==
    IF pivot_i >= RM.Matrix.Columns THEN Eliminated(TRUE, RM, W, data)
    ELSE EliminateWith(RM, W, data, pivot_i, pivot_i * RM.Matrix.AllocatedColumns,
                       data[pivot_i * RM.Matrix.AllocatedColumns + pivot_i + 1])

\* RecoveryMatrixState::GaussianElimination, the matrix buffer is written back
GaussianEliminated(ge, memory) ==
    [ok |-> ge.ok, RecoveryMatrix |-> ge.RecoveryMatrix, Window |-> ge.Window,
     memory |-> Store(memory, MatrixPtr, ge.data)]

\* RecoveryMatrixState::GaussianElimination
GaussianElimination(RM, W, memory) ==
    GaussianEliminated(IF RM.GEResumePivot > 0
                       THEN PivotedGaussianElimination(RM, W, memory[MatrixPtr], RM.GEResumePivot)
                       ELSE EliminateFrom(RM, W, memory[MatrixPtr], 0),
                       memory)

(***************************************************************************)
(* Decoder                                                                 *)
(***************************************************************************)
\* LaneSums[laneIndex][sumIndex].Data in LaneSums, the sequence of the Data pointers lane after lane
LaneSumIndex(laneIndex, sumIndex) == laneIndex * kColumnSumCount + sumIndex + 1

\* A summer and the memory it works on
Summed(summer, memory) == [summer |-> summer, memory |-> memory]

\* Decoder::GetLaneSum, sumIndex == 0: if (data) summer.Add(data)
LaneSum0Column(summer, memory, data) ==
    IF data # nullptr THEN XORSummerAdd(summer, memory, data) ELSE Summed(summer, memory)

\* Decoder::GetLaneSum, sumIndex == 0: for (column = laneIndex; column < inputEnd; column += 8)
RECURSIVE LaneSum0Columns(_, _, _, _, _)
LaneSum0Next(a, W, column, inputEnd) ==
    Strict(a, LaneSum0Columns(a.summer, a.memory, W, column + kColumnLaneCount, inputEnd))
LaneSum0Columns(summer, memory, W, column, inputEnd) ==
    IF column >= inputEnd THEN Summed(summer, memory)
    ELSE LaneSum0Next(LaneSum0Column(summer, memory, At(W.OriginalData, column).Data), W, column, inputEnd)

\* Decoder::GetLaneSum, CX_or_CX2 for a column
CX_or_CX2(column, sumIndex) ==
    IF sumIndex = 2 THEN gf256_sqr(GetColumnValue(column)) ELSE GetColumnValue(column)

\* gf256_add_mem(dest, src, bytes) on buffers in memory
AddBuffer(memory, dest, src, bytes) ==
    Store(memory, dest, gf256_add_mem(memory[dest], memory[src], bytes))

\* gf256_muladd_mem(dest, y, src, bytes) on buffers in memory
MulAddBuffer(memory, dest, y, src, bytes) ==
    Store(memory, dest, gf256_muladd_mem(memory[dest], y, memory[src], bytes))

\* Decoder::GetLaneSum, sumIndex > 0: the body of the loop over the columns
LaneSum12Column(memory, W, dest, sumIndex, column, data) ==
    IF data = nullptr THEN memory
    ELSE MulAddBuffer(memory, dest, CX_or_CX2(column, sumIndex), data, W.SymbolBytes)

\* Decoder::GetLaneSum, sumIndex > 0: for (column = laneIndex; column < inputEnd; column += 8)
RECURSIVE LaneSum12Columns(_, _, _, _, _, _)
LaneSum12Next(memory, W, dest, sumIndex, column, inputEnd) ==
    Strict(memory, LaneSum12Columns(memory, W, dest, sumIndex, column + kColumnLaneCount, inputEnd))
LaneSum12Columns(memory, W, dest, sumIndex, column, inputEnd) ==
    IF column >= inputEnd THEN memory
    ELSE LaneSum12Next(LaneSum12Column(memory, W, dest, sumIndex, column, At(W.OriginalData, column).Data),
                       W, dest, sumIndex, column, inputEnd)

\* Decoder::GetLaneSum, sumIndex == 0: the final column and summer.Finalize()
LaneSum0Final(W, a, dest, laneIndex, final) ==
    XORSummerFinalize(a.summer,
                      IF (W.InputCount - 1) % kColumnLaneCount = laneIndex /\ final # nullptr
                      THEN AddBuffer(a.memory, dest, final, W.FinalBytes)
                      ELSE a.memory)

\* Decoder::GetLaneSum, sumIndex > 0: the final column
LaneSum12Final(W, memory, dest, laneIndex, sumIndex, final) ==
    IF (W.InputCount - 1) % kColumnLaneCount = laneIndex /\ final # nullptr
    THEN MulAddBuffer(memory, dest, CX_or_CX2(W.InputCount - 1, sumIndex), final, W.FinalBytes)
    ELSE memory

\* Decoder::GetLaneSum from memset on: memory holds the zeroed sum at dest
LaneSumCompute(W, memory, dest, laneIndex, sumIndex) ==
    IF sumIndex = 0
    THEN LaneSum0Final(W, LaneSum0Columns(XORSummerInitialize(dest, W.SymbolBytes), memory, W,
                                          laneIndex, W.InputCount - 1),
                       dest, laneIndex, At(W.OriginalData, W.InputCount - 1).Data)
    ELSE LaneSum12Final(W, LaneSum12Columns(memory, W, dest, sumIndex, laneIndex, W.InputCount - 1),
                        dest, laneIndex, sumIndex, At(W.OriginalData, W.InputCount - 1).Data)

\* Decoder::GetLaneSum(laneIndex, sumIndex); allocated = FALSE when sum.Allocate fails.
\* ptr is the pointer returned
GetLaneSum(LaneSums, W, memory, laneIndex, sumIndex, allocated) ==
    IF LaneSums[LaneSumIndex(laneIndex, sumIndex)] # nullptr
    THEN [ptr |-> LaneSums[LaneSumIndex(laneIndex, sumIndex)], LaneSums |-> LaneSums, memory |-> memory]
    ELSE IF ~allocated
    THEN [ptr |-> nullptr, LaneSums |-> LaneSums, memory |-> memory]
    ELSE [ptr |-> LanePtr(laneIndex, sumIndex),
          LaneSums |-> [LaneSums EXCEPT ![LaneSumIndex(laneIndex, sumIndex)] = LanePtr(laneIndex, sumIndex)],
          memory |-> LaneSumCompute(W, Store(memory, LanePtr(laneIndex, sumIndex), ZeroBuffer(W.SymbolBytes)),
                                    LanePtr(laneIndex, sumIndex), laneIndex, sumIndex)]

\* The state of Decoder::EliminateOriginalData within one row: the two summers, LaneSums and
\* the memory.  fault: a summer that holds a waiting source is given the null pointer of a
\* failed GetLaneSum and reads through it, which ends the process
Eliminating(summer1, summerRX, LaneSums, memory, fault) ==
    [summer1 |-> summer1, summerRX |-> summerRX, LaneSums |-> LaneSums, memory |-> memory, fault |-> fault]

\* Decoder::EliminateOriginalData, summer1.Add(src) when into1 and summerRX.Add(src) otherwise
EliminateLaneAdded(c, into1, LaneSums, a) ==
    Eliminating(IF into1 THEN a.summer ELSE c.summer1, IF into1 THEN c.summerRX ELSE a.summer,
                LaneSums, a.memory, FALSE)

\* Decoder::EliminateOriginalData, summer.Add(g.ptr) where g is what GetLaneSum returned
EliminateLaneSum(c, into1, summer, g) ==
    IF g.ptr = nullptr /\ summer.Waiting # nullptr
    THEN [c EXCEPT !.fault = TRUE]
    ELSE EliminateLaneAdded(c, into1, g.LaneSums, XORSummerAdd(summer, g.memory, g.ptr))

\* Decoder::EliminateOriginalData, if (opcode & mask) summer.Add(GetLaneSum(laneIndex, sumIndex))
EliminateLane(c, W, op, allocated) ==
    EliminateLaneSum(c, op.bit < kColumnSumCount,
                     IF op.bit < kColumnSumCount THEN c.summer1 ELSE c.summerRX,
                     GetLaneSum(c.LaneSums, W, c.memory, op.lane, op.bit % kColumnSumCount, allocated))

\* Decoder::EliminateOriginalData, the loop over the lanes of one row
RECURSIVE EliminateLanes(_, _, _, _, _)
EliminateLanesNext(c, W, ops, i, allocated) == Strict(c, EliminateLanes(c, W, ops, i + 1, allocated))
EliminateLanes(c, W, ops, i, allocated) ==
    IF i > Len(ops) \/ c.fault THEN c
    ELSE EliminateLanesNext(EliminateLane(c, W, ops[i], allocated), W, ops, i, allocated)

\* Decoder::EliminateOriginalData, one element of a pair: if (original) { if (element ==
\* inputCount - 1) gf256_add_mem(dest, original, FinalBytes); else summer.Add(original); }
EliminateElement(W, summer, memory, element, data) ==
    IF data = nullptr THEN Summed(summer, memory)
    ELSE IF element = W.InputCount - 1
    THEN Summed(summer, AddBuffer(memory, summer.DestBuffer, data, W.FinalBytes))
    ELSE XORSummerAdd(summer, memory, data)

\* Decoder::EliminateOriginalData, both elements of a pair are done: b is what elementRX left
EliminatedPair(c, summer1, b) == [c EXCEPT !.summer1 = summer1, !.summerRX = b.summer, !.memory = b.memory]

\* Decoder::EliminateOriginalData, elementRX of a pair: a is what element1 left
EliminatePairRX(c, W, a, elementRX) ==
    EliminatedPair(c, a.summer,
                   EliminateElement(W, c.summerRX, a.memory, elementRX, At(W.OriginalData, elementRX).Data))

\* Decoder::EliminateOriginalData, the body of the loop over the pairs
EliminatePair(c, W, pair) ==
    EliminatePairRX(c, W,
                    EliminateElement(W, c.summer1, c.memory, pair.element1,
                                     At(W.OriginalData, pair.element1).Data),
                    pair.elementRX)

\* Decoder::EliminateOriginalData, the loop over the pairs of one row
RECURSIVE EliminatePairs(_, _, _, _)
EliminatePairsNext(c, W, pairs, i) == Strict(c, EliminatePairs(c, W, pairs, i + 1))
EliminatePairs(c, W, pairs, i) ==
    IF i > Len(pairs) THEN c
    ELSE EliminatePairsNext(EliminatePair(c, W, pairs[i]), W, pairs, i)

\* The state of Decoder::EliminateOriginalData between rows: LaneSums, the memory and fault
Recovering(LaneSums, memory, fault) == [LaneSums |-> LaneSums, memory |-> memory, fault |-> fault]

\* Decoder::EliminateOriginalData, gf256_muladd_mem(recovery.Data, RX, ProductWorkspace.Data, symbolBytes)
EliminateOneFinal(W, recovery, product, LaneSums, memory) ==
    Recovering(LaneSums,
               MulAddBuffer(memory, recovery.Data, GetRowValue(recovery.Row), product, W.SymbolBytes),
               FALSE)

\* Decoder::EliminateOriginalData, summer1.Finalize() and summerRX.Finalize() after the pairs
EliminateOnePairs(W, recovery, product, c) ==
    EliminateOneFinal(W, recovery, product, c.LaneSums,
                      XORSummerFinalize(c.summerRX, XORSummerFinalize(c.summer1, c.memory)))

\* Decoder::EliminateOriginalData, the pairs of one row after its lanes
EliminateOneLanes(W, recovery, product, c) ==
    IF c.fault THEN Recovering(c.LaneSums, c.memory, TRUE)
    ELSE EliminateOnePairs(W, recovery, product,
                           EliminatePairs(c, W, PairDraws(recovery.Row, W.InputCount), 1))

\* Decoder::EliminateOriginalData, the body of the loop over the rows
EliminateOne(c, W, recovery, product, allocated) ==
    IF ~recovery.UsedForSolution THEN c
    ELSE EliminateOneLanes(W, recovery, product,
                           EliminateLanes(Eliminating(XORSummerInitialize(recovery.Data, W.SymbolBytes),
                                                      XORSummerInitialize(product, W.SymbolBytes),
                                                      c.LaneSums,
                                                      Store(c.memory, product, ZeroBuffer(W.SymbolBytes)),
                                                      FALSE),
                                          W, LaneOps(recovery.Row), 1, allocated))

\* Decoder::EliminateOriginalData, the loop over the rows from matrixRowIndex on
RECURSIVE EliminateRecovery(_, _, _, _, _)
EliminateRecoveryNext(c, W, product, matrixRowIndex, allocated) ==
    Strict(c, EliminateRecovery(c, W, product, matrixRowIndex + 1, allocated))
EliminateRecovery(c, W, product, matrixRowIndex, allocated) ==
    IF matrixRowIndex >= Len(W.RecoveryData) \/ c.fault THEN c
    ELSE EliminateRecoveryNext(EliminateOne(c, W, At(W.RecoveryData, matrixRowIndex), product, allocated),
                               W, product, matrixRowIndex, allocated)

\* What a step of Decoder::Decode leaves: fault = it read or wrote through a null pointer
Outcome(result, fault, D, memory) == [result |-> result, fault |-> fault, D |-> D, memory |-> memory]

\* Decoder::EliminateOriginalData after the loop over the rows
EliminatedOriginalData(D, c) ==
    Outcome(Fecal_Success, c.fault, [D EXCEPT !.ProductWorkspace = ProdPtr, !.LaneSums = c.LaneSums], c.memory)

\* Decoder::EliminateOriginalData; alloc.product and alloc.lanesum are FALSE when
\* ProductWorkspace.Allocate and the LaneSums allocations fail
EliminateOriginalData(D, memory, alloc) ==
    IF ~alloc.product
    THEN Outcome(Fecal_OutOfMemory, FALSE, [D EXCEPT !.ProductWorkspace = nullptr],
                 Free(memory, D.ProductWorkspace))
    ELSE EliminatedOriginalData(D, EliminateRecovery(
             Recovering(D.LaneSums, Store(memory, ProdPtr, ZeroBuffer(D.Window.SymbolBytes)), FALSE),
             D.Window, ProdPtr, 0, alloc.lanesum))

\* Decoder::MultiplyLowerTriangle, if (y == 0) continue; gf256_muladd_mem(destData, y, srcData, srcBytes)
MultiplyCell(D, memory, y, destData, srcData) ==
    IF y = 0 THEN memory ELSE MulAddBuffer(memory, destData, y, srcData, D.Window.SymbolBytes)

\* Decoder::MultiplyLowerTriangle, the body of the loop over col_j
MultiplyRow(D, memory, col_i, matrixRowIndex_j) ==
    MultiplyCell(D, memory, MatrixGet(D.RecoveryMatrix.Matrix, memory, matrixRowIndex_j, col_i),
                 At(D.Window.RecoveryData, matrixRowIndex_j).Data,
                 At(D.Window.RecoveryData, At(D.RecoveryMatrix.Pivots, col_i)).Data)

\* Decoder::MultiplyLowerTriangle, the loops from (col_i, col_j) on
RECURSIVE MultiplyFrom(_, _, _, _)
MultiplyFromNext(D, memory, col_i, col_j) == Strict(memory, MultiplyFrom(D, memory, col_i, col_j + 1))
MultiplyFrom(D, memory, col_i, col_j) ==
    IF col_i >= Len(D.RecoveryMatrix.Columns) - 1 THEN memory
    ELSE IF col_j >= Len(D.RecoveryMatrix.Columns) THEN MultiplyFrom(D, memory, col_i + 1, col_i + 2)
    ELSE MultiplyFromNext(D, MultiplyRow(D, memory, col_i, At(D.RecoveryMatrix.Pivots, col_j)), col_i, col_j)

\* Decoder::MultiplyLowerTriangle
MultiplyLowerTriangle(D, memory) == MultiplyFrom(D, memory, 0, 1)

\* Decoder::BackSubstitution, if (x == 0) continue; gf256_muladd_mem(dest, x, recovery, originalBytes)
SubstituteCell(memory, x, dest, recovery, originalBytes) ==
    IF x = 0 THEN memory ELSE MulAddBuffer(memory, dest, x, recovery, originalBytes)

\* Decoder::BackSubstitution, the body of the loop over the pivot rows above col_i
SubstituteRow(D, memory, recovery, originalBytes, col_i, pivot_j) ==
    SubstituteCell(memory, MatrixGet(D.RecoveryMatrix.Matrix, memory, pivot_j, col_i),
                   At(D.Window.RecoveryData, pivot_j).Data, recovery, originalBytes)

\* Decoder::BackSubstitution, the loop over the pivot rows above col_i, from col_j on
RECURSIVE SubstituteAbove(_, _, _, _, _, _)
SubstituteAboveNext(D, memory, recovery, originalBytes, col_i, col_j) ==
    Strict(memory, SubstituteAbove(D, memory, recovery, originalBytes, col_i, col_j + 1))
SubstituteAbove(D, memory, recovery, originalBytes, col_i, col_j) ==
    IF col_j >= col_i THEN memory
    ELSE SubstituteAboveNext(D, SubstituteRow(D, memory, recovery, originalBytes, col_i,
                                              At(D.RecoveryMatrix.Pivots, col_j)),
                             recovery, originalBytes, col_i, col_j)

\* What Decoder::BackSubstitution leaves
Substituted(D, memory) == [D |-> D, memory |-> memory]

\* gf256_div_mem(dest, dest, y, bytes) on a buffer in memory
DivBuffer(memory, dest, y, bytes) ==
    Store(memory, dest, gf256_div_mem(memory[dest], memory[dest], y, bytes))

\* Decoder::BackSubstitution, the loop from col_i down
RECURSIVE SubstituteFrom(_, _, _)
SubstituteFromNext(D, memory, col_i) == Strict(memory, SubstituteFrom(D, memory, col_i - 1))

\* Decoder::BackSubstitution, the column is recovered: it is eliminated from the rows above
SubstituteRecovered(D, memory, recovery, originalBytes, col_i) ==
    SubstituteFromNext(D, SubstituteAbove(D, memory, recovery, originalBytes, col_i, 0), col_i)

\* Decoder::BackSubstitution, the recovery buffer is divided by y and becomes the original
SubstituteColumn(D, memory, recovery, y, originalColumn, originalBytes, col_i) ==
    SubstituteRecovered([D EXCEPT !.Window.OriginalData[originalColumn + 1].Data = recovery,
                                  !.RecoveredData[col_i + 1] =
                                      [Data |-> recovery, Bytes |-> originalBytes, Index |-> originalColumn]],
                        DivBuffer(memory, recovery, y, originalBytes), recovery, originalBytes, col_i)

\* Decoder::BackSubstitution, the body of the loop over the columns
SubstitutePivot(D, memory, matrixRowIndex, originalColumn, col_i) ==
    SubstituteColumn(D, memory, At(D.Window.RecoveryData, matrixRowIndex).Data,
                     MatrixGet(D.RecoveryMatrix.Matrix, memory, matrixRowIndex, col_i),
                     originalColumn, GetColumnBytes(D.Window, originalColumn), col_i)

SubstituteFrom(D, memory, col_i) ==
    IF col_i < 0 THEN Substituted(D, memory)
    ELSE SubstitutePivot(D, memory, At(D.RecoveryMatrix.Pivots, col_i),
                         At(D.RecoveryMatrix.Columns, col_i).Column, col_i)

\* A value-initialised FecalSymbol
NewSymbol == [Data |-> nullptr, Bytes |-> 0, Index |-> 0]

\* Decoder::BackSubstitution
BackSubstitution(D, memory) ==
    SubstituteFrom([D EXCEPT !.RecoveredData = Resized(@, Len(D.RecoveryMatrix.Columns), NewSymbol)],
                   memory, Len(D.RecoveryMatrix.Columns) - 1)

\* &RecoveredData[0]
RecoveredDataPtr == << "recovered", 0 >>

\* Every allocation of a Decode call succeeding
NoFailure == [matrix |-> TRUE, product |-> TRUE, lanesum |-> TRUE]

\* Decoder::Decode, the default return values of symbols
NoSymbols == [Symbols |-> nullptr, Count |-> 0]

\* What Decoder::Decode returns and leaves
Returned(result, fault, D, memory, symbols) ==
    [result |-> result, fault |-> fault, D |-> D, memory |-> memory, symbols |-> symbols]

\* Decoder::Decode after BackSubstitution
DecodeSolved(bs) ==
    Returned(Fecal_Success, FALSE, bs.D, bs.memory,
             [Symbols |-> RecoveredDataPtr, Count |-> Len(bs.D.RecoveredData)])

\* Decoder::Decode after EliminateOriginalData
DecodeOriginals(el) ==
    IF el.fault THEN Returned(Fecal_OutOfMemory, TRUE, el.D, el.memory, NoSymbols)
    ELSE IF el.result # Fecal_Success THEN Returned(el.result, FALSE, el.D, el.memory, NoSymbols)
    ELSE DecodeSolved(BackSubstitution(el.D, MultiplyLowerTriangle(el.D, el.memory)))

\* The decoder with the recovery matrix and the window that a step r of the matrix has left
WithMatrix(D, r) == [D EXCEPT !.RecoveryMatrix = r.RecoveryMatrix, !.Window = r.Window]

\* A Decode that goes on to EliminateOriginalData whatever GaussianElimination returns
DecodeUnsolved(D, ge, alloc) ==
    DecodeOriginals(EliminateOriginalData(WithMatrix(D, ge), ge.memory, alloc))

\* Decoder::Decode after GaussianElimination
DecodeEliminated(D, ge, alloc) ==
    IF ~ge.ok THEN Returned(Fecal_NeedMoreData, FALSE, WithMatrix(D, ge), ge.memory, NoSymbols)
    ELSE DecodeOriginals(EliminateOriginalData(WithMatrix(D, ge), ge.memory, alloc))

\* Decoder::Decode after GenerateMatrix
DecodeGenerated(D, gm, alloc) ==
    IF gm.fault THEN Returned(Fecal_OutOfMemory, TRUE, WithMatrix(D, gm), gm.memory, NoSymbols)
    ELSE IF ~gm.ok THEN Returned(Fecal_OutOfMemory, FALSE, WithMatrix(D, gm), gm.memory, NoSymbols)
    ELSE DecodeEliminated(D, GaussianElimination(gm.RecoveryMatrix, gm.Window, gm.memory), alloc)

\* Decoder::Decode from RecoveryAttempted = true on
DecodeAttempt(D, memory, alloc) ==
    DecodeGenerated(D, GenerateMatrix(D.RecoveryMatrix, D.Window, memory, alloc.matrix), alloc)

\* A Decode that marks the attempt before it looks whether every original has arrived
DecodeMarked(D, memory, alloc) ==
    IF D.Window.OriginalGotCount + Len(D.Window.RecoveryData) < D.Window.InputCount
    THEN Returned(Fecal_NeedMoreData, FALSE, D, memory, NoSymbols)
    ELSE IF D.RecoveryAttempted
    THEN Returned(Fecal_NeedMoreData, FALSE, D, memory, NoSymbols)
    ELSE IF D.Window.OriginalGotCount >= D.Window.InputCount
    THEN Returned(Fecal_Success, FALSE, [D EXCEPT !.RecoveryAttempted = TRUE], memory, NoSymbols)
    ELSE DecodeAttempt([D EXCEPT !.RecoveryAttempted = TRUE], memory, alloc)

\* A Decode that marks the attempt before it counts the symbols
DecodeCounted(D, memory, alloc) ==
    IF D.Window.OriginalGotCount >= D.Window.InputCount
    THEN Returned(Fecal_Success, FALSE, D, memory, NoSymbols)
    ELSE IF D.RecoveryAttempted
    THEN Returned(Fecal_NeedMoreData, FALSE, D, memory, NoSymbols)
    ELSE IF D.Window.OriginalGotCount + Len(D.Window.RecoveryData) < D.Window.InputCount
    THEN Returned(Fecal_NeedMoreData, FALSE, [D EXCEPT !.RecoveryAttempted = TRUE], memory, NoSymbols)
    ELSE DecodeAttempt([D EXCEPT !.RecoveryAttempted = TRUE], memory, alloc)

\* A Decode that does not record that it has attempted the recovery
DecodeUnmarked(D, memory, alloc) ==
    IF D.Window.OriginalGotCount >= D.Window.InputCount
    THEN Returned(Fecal_Success, FALSE, D, memory, NoSymbols)
    ELSE IF D.Window.OriginalGotCount + Len(D.Window.RecoveryData) < D.Window.InputCount
    THEN Returned(Fecal_NeedMoreData, FALSE, D, memory, NoSymbols)
    ELSE IF D.RecoveryAttempted
    THEN Returned(Fecal_NeedMoreData, FALSE, D, memory, NoSymbols)
    ELSE DecodeAttempt(D, memory, alloc)

\* Decoder::Decode(symbols).  alloc tells which allocations of the call succeed; fault: the
\* call reads or writes through a null pointer
Decode(D, memory, alloc) ==
    IF D.Window.OriginalGotCount >= D.Window.InputCount
    THEN Returned(Fecal_Success, FALSE, D, memory, NoSymbols)
    ELSE IF D.Window.OriginalGotCount + Len(D.Window.RecoveryData) < D.Window.InputCount
    THEN Returned(Fecal_NeedMoreData, FALSE, D, memory, NoSymbols)
    ELSE IF D.RecoveryAttempted
    THEN Returned(Fecal_NeedMoreData, FALSE, D, memory, NoSymbols)
    ELSE DecodeAttempt([D EXCEPT !.RecoveryAttempted = TRUE], memory, alloc)

\* A default-constructed Decoder
NewDecoder ==
    [Window |-> NewWindow, RecoveryMatrix |-> NewRecoveryMatrix, RecoveryAttempted |-> FALSE,
     RecoveredData |-> << >>,
     LaneSums |-> AsTuple([n \in 1..(kColumnLaneCount * kColumnSumCount) |-> nullptr]),
     ProductWorkspace |-> nullptr]

\* Decoder::Initialize(input_count, total_bytes)
DecoderInitialize(D, input_count, total_bytes) ==
    LET p == SetParameters(input_count, total_bytes)
    IN  IF ~p.ok THEN [result |-> Fecal_InvalidInput, D |-> D]
        ELSE [result |-> Fecal_Success,
              D |-> [D EXCEPT !.Window = AllocateOriginals(
                         [@ EXCEPT !.InputCount = p.InputCount, !.TotalBytes = p.TotalBytes,
                                   !.SymbolBytes = p.SymbolBytes, !.FinalBytes = p.FinalBytes])]]

\* An AddOriginal that leaves RecoveryAttempted as it is
DecoderAddOriginalKept(D, symbol) ==
    IF \/ symbol.Index >= D.Window.InputCount
       \/ symbol.Data = nullptr
       \/ symbol.Bytes # GetColumnBytes(D.Window, symbol.Index)
    THEN [result |-> Fecal_InvalidInput, D |-> D]
    ELSE [result |-> Fecal_Success,
          D |-> [D EXCEPT !.Window = WindowAddOriginal(D.Window, symbol.Index, symbol.Data).Window]]

\* Decoder::AddOriginal(symbol)
DecoderAddOriginal(D, symbol) ==
    IF \/ symbol.Index >= D.Window.InputCount
       \/ symbol.Data = nullptr
       \/ symbol.Bytes # GetColumnBytes(D.Window, symbol.Index)
    THEN [result |-> Fecal_InvalidInput, D |-> D]
    ELSE LET a == WindowAddOriginal(D.Window, symbol.Index, symbol.Data)
         IN  [result |-> Fecal_Success,
              D |-> IF a.added THEN [D EXCEPT !.Window = a.Window, !.RecoveryAttempted = FALSE] ELSE D]

\* An AddRecovery that clears RecoveryAttempted before it looks at the symbol
DecoderAddRecoveryCleared(D, symbol) ==
    IF symbol.Data = nullptr \/ symbol.Bytes # D.Window.SymbolBytes
    THEN [result |-> Fecal_InvalidInput, D |-> [D EXCEPT !.RecoveryAttempted = FALSE]]
    ELSE [result |-> Fecal_Success,
          D |-> [D EXCEPT !.Window = WindowAddRecovery(D.Window, symbol.Data, symbol.Index).Window,
                          !.RecoveryAttempted = FALSE]]

\* Decoder::AddRecovery(symbol)
DecoderAddRecovery(D, symbol) ==
    IF symbol.Data = nullptr \/ symbol.Bytes # D.Window.SymbolBytes
    THEN [result |-> Fecal_InvalidInput, D |-> D]
    ELSE LET a == WindowAddRecovery(D.Window, symbol.Data, symbol.Index)
         IN  [result |-> Fecal_Success,
              D |-> IF a.added THEN [D EXCEPT !.Window = a.Window, !.RecoveryAttempted = FALSE] ELSE D]

\* A GetOriginal that returns Fecal_Success for every column below InputCount
GetOriginalUnchecked(D, column) ==
    IF column >= D.Window.InputCount
    THEN [result |-> Fecal_InvalidInput, symbol |-> [Index |-> column, Data |-> nullptr, Bytes |-> 0]]
    ELSE [result |-> Fecal_Success,
          symbol |-> [Index |-> column, Data |-> At(D.Window.OriginalData, column).Data,
                      Bytes |-> GetColumnBytes(D.Window, column)]]

\* Decoder::GetOriginal(column, symbol)
GetOriginal(D, column) ==
    LET data == At(D.Window.OriginalData, column).Data
    IN  IF column >= D.Window.InputCount
        THEN [result |-> Fecal_InvalidInput, symbol |-> [Index |-> column, Data |-> nullptr, Bytes |-> 0]]
        ELSE IF data = nullptr
        THEN [result |-> Fecal_NeedMoreData, symbol |-> [Index |-> column, Data |-> nullptr, Bytes |-> 0]]
        ELSE [result |-> Fecal_Success,
              symbol |-> [Index |-> column, Data |-> data, Bytes |-> GetColumnBytes(D.Window, column)]]

(***************************************************************************)
(* The application: an encoder over the original data has produced the     *)
(* recovery symbols of rows 0..MaxRow; a decoder with the same parameters  *)
(* is fed originals and recovery symbols in any order and asked to decode. *)
(***************************************************************************)
VARIABLES
    original,    \* original[column]: the bytes of each original symbol, as given to the encoder
    encoder,     \* the Encoder object
    decoder,     \* the Decoder object
    mem,         \* the buffers behind the pointers, the caller's and the codec's
    call,        \* the latest API call: its arguments, what it returned and what it found
    alive,       \* FALSE once a call has read or written through a null pointer
    succeeded,   \* TRUE once a Decode call has returned Fecal_Success
    recovered,   \* the symbols that the first Decode call to recover any has returned
    failures     \* the number of Decode calls in which an allocation has failed

vars == << original, encoder, decoder, mem, call, alive, succeeded, recovered, failures >>

\* The recovery rows that arrive at the decoder in any order
Rows == 1..MaxRow

\* The recovery symbol of a row, as the application hands it to Encode and to AddRecovery
RecoverySymbol(W, row) == [Index |-> row, Data |-> RecPtr(row), Bytes |-> W.SymbolBytes]
\* The original symbol of a column, as the application hands it to AddOriginal
OriginalSymbol(W, column) == [Index |-> column, Data |-> OrigPtr(column), Bytes |-> GetColumnBytes(W, column)]

\* The memory after Encode has been called for the rows from row on
RECURSIVE EncodeRows(_, _, _)
EncodedRow(E, memory, row) == Strict(memory, EncodeRows(E, memory, row + 1))
EncodeRows(E, memory, row) ==
    IF row > MaxRow THEN memory
    ELSE EncodedRow(E, Encode(E, Store(memory, RecPtr(row), ZeroBuffer(E.Window.SymbolBytes)),
                              RecoverySymbol(E.Window, row)).memory, row)

\* The caller's buffers among those in memory: the originals and the recovery symbols
CallerBuffers(input_count, memory) ==
    [q \in {OrigPtr(c) : c \in 0..(input_count - 1)} \cup {RecPtr(r) : r \in 0..MaxRow} |-> memory[q]]
EncodeAll(E, input_count) == CallerBuffers(input_count, EncodeRows(E, E.memory, 0))

\* The input_data buffers of the encoder
InputData(input_count, data) == [q \in {OrigPtr(c) : c \in 0..(input_count - 1)} |-> data[q[2]]]

\* The caller's buffers once the encoder has run
Transmitted(input_count, total_bytes, data) ==
    EncodeAll(EncoderInitialize(input_count, total_bytes, InputData(input_count, data)), input_count)

\* The original data: consecutive byte values from a first byte drawn from DataBytes
OriginalData(W) ==
    {[c \in 0..(W.InputCount - 1) |->
        AsTuple([i \in 1..GetColumnBytes(W, c) |-> (first + c * W.SymbolBytes + i - 1) % 256])] :
     first \in DataBytes}

\* The Encoder object without the memory its buffers are in
EncoderObject(E) == [Window |-> E.Window, ProductWorkspace |-> E.ProductWorkspace]

\* What a call found: attempted = RecoveryAttempted, had = the element it adds was already
\* there, again = Decode has been called since the latest call that added, succeeded = a Decode
\* call had returned Fecal_Success, failed = an allocation of the call fails
Found(D, had, failed) ==
    [attempted |-> D.RecoveryAttempted, had |-> had, again |-> call.decoded,
     succeeded |-> succeeded, failed |-> failed]

\* The record of a call: symbol is its argument, out what it has written to its result argument
Called(op, symbol, result, out, decoded, found) ==
    [op |-> op, symbol |-> symbol, result |-> result, out |-> out, decoded |-> decoded, found |-> found]

\* The state after fecal_decoder_create and the encoder's run
Created(input_count, total_bytes) ==
    /\ DecoderInitialize(NewDecoder, input_count, total_bytes).result = Fecal_Success
    /\ decoder = DecoderInitialize(NewDecoder, input_count, total_bytes).D
    /\ original \in OriginalData(decoder.Window)
    /\ encoder = EncoderObject(EncoderInitialize(input_count, total_bytes, InputData(input_count, original)))
    /\ mem = Transmitted(input_count, total_bytes, original)
    /\ call = Called("create", NewSymbol, Fecal_Success, NoSymbols, FALSE,
                     [attempted |-> FALSE, had |-> FALSE, again |-> FALSE, succeeded |-> FALSE,
                      failed |-> FALSE])
    /\ alive = TRUE
    /\ succeeded = FALSE
    /\ recovered = << >>
    /\ failures = 0

Init == \E input_count \in 1..MaxK : Created(input_count, GivenBytes)

\* OriginalData[column].Data is set
HasOriginal(W, column) == column < W.InputCount /\ At(W.OriginalData, column).Data # nullptr

\* The symbols the application gives to fecal_decoder_add_original: the original symbols, and
\* symbols with an index that is no column, with no data and with another length
OriginalSymbols(W) ==
    {OriginalSymbol(W, c) : c \in 0..(W.InputCount - 1)}
        \cup {[OriginalSymbol(W, 0) EXCEPT !.Index = W.InputCount],
              [OriginalSymbol(W, 0) EXCEPT !.Data = nullptr],
              [OriginalSymbol(W, W.InputCount - 1) EXCEPT !.Bytes = W.FinalBytes + 1]}

\* The symbols the application gives to fecal_decoder_add_recovery: the recovery symbols, and
\* symbols with no data and with another length
RecoverySymbols(W) ==
    {RecoverySymbol(W, row) : row \in Rows}
        \cup {[RecoverySymbol(W, 1) EXCEPT !.Data = nullptr],
              [RecoverySymbol(W, 1) EXCEPT !.Bytes = W.SymbolBytes - 1]}

\* fecal_decoder_add_original
AddOriginal(symbol) ==
    /\ alive
    /\ decoder' = DecoderAddOriginal(decoder, symbol).D
    /\ call' = Called("AddOriginal", symbol, DecoderAddOriginal(decoder, symbol).result, NoSymbols, FALSE,
                      Found(decoder, HasOriginal(decoder.Window, symbol.Index), FALSE))
    /\ UNCHANGED << original, encoder, mem, alive, succeeded, recovered, failures >>

\* fecal_decoder_add_recovery
AddRecovery(symbol) ==
    /\ alive
    /\ decoder' = DecoderAddRecovery(decoder, symbol).D
    /\ call' = Called("AddRecovery", symbol, DecoderAddRecovery(decoder, symbol).result, NoSymbols, FALSE,
                      Found(decoder, symbol.Index \in decoder.Window.RowSet, FALSE))
    /\ UNCHANGED << original, encoder, mem, alive, succeeded, recovered, failures >>

\* fecal_decoder_get
GetOriginalCall(column) ==
    /\ alive
    /\ call' = Called("GetOriginal", [NewSymbol EXCEPT !.Index = column], GetOriginal(decoder, column).result,
                      GetOriginal(decoder, column).symbol, call.decoded,
                      Found(decoder, HasOriginal(decoder.Window, column), FALSE))
    /\ UNCHANGED << original, encoder, decoder, mem, alive, succeeded, recovered, failures >>

\* What the allocations of one Decode call may do: all succeed, or those of one kind fail
AllocOutcomes ==
    {NoFailure, [NoFailure EXCEPT !.matrix = FALSE], [NoFailure EXCEPT !.product = FALSE],
     [NoFailure EXCEPT !.lanesum = FALSE]}

\* fecal_decode has returned r; failed = an allocation that the call makes has failed
DecodeReturns(r, failed) ==
    /\ failures' = IF failed THEN failures + 1 ELSE failures
    /\ decoder' = r.D
    /\ mem' = r.memory
    /\ alive' = ~r.fault
    /\ call' = Called("Decode", NewSymbol, r.result, r.symbols, TRUE, Found(decoder, FALSE, failed))
    /\ succeeded' = (succeeded \/ (~r.fault /\ r.result = Fecal_Success))
    /\ recovered' = IF recovered = << >> /\ ~r.fault /\ r.result = Fecal_Success /\ r.symbols.Count > 0
                    THEN r.D.RecoveredData
                    ELSE recovered
    /\ UNCHANGED << original, encoder >>

\* fecal_decode, a call in which the allocations of one kind fail, if it makes any
DecodeFailing(r) == DecodeReturns(r, r # Decode(decoder, mem, NoFailure))

\* fecal_decode
DecodeCall(alloc) ==
    /\ alive
    /\ alloc = NoFailure \/ failures < MaxFailures
    /\ IF alloc = NoFailure
       THEN DecodeReturns(Decode(decoder, mem, NoFailure), FALSE)
       ELSE DecodeFailing(Decode(decoder, mem, alloc))

Next ==
    \/ \E symbol \in OriginalSymbols(decoder.Window) : AddOriginal(symbol)
    \/ \E symbol \in RecoverySymbols(decoder.Window) : AddRecovery(symbol)
    \/ \E column \in 0..decoder.Window.InputCount : GetOriginalCall(column)
    \/ \E alloc \in AllocOutcomes : DecodeCall(alloc)

Spec == Init /\ [][Next]_vars

(***************************************************************************)
(* The application that retries: the received originals are added, then    *)
(* the recovery symbols of rows 0, 1, 2, ... one at a time, each followed  *)
(* by a Decode, until Decode returns Fecal_Success.  No allocation fails.  *)
(***************************************************************************)
\* The decoder after AddOriginal of the columns in got, in ascending order from column on
RECURSIVE ReceivedFrom(_, _, _)
ReceivedFrom(D, got, column) ==
    IF column >= D.Window.InputCount THEN D
    ELSE ReceivedFrom(IF column \in got THEN DecoderAddOriginal(D, OriginalSymbol(D.Window, column)).D ELSE D,
                      got, column + 1)

\* The state after the received originals were added
Received(input_count, total_bytes, got) ==
    /\ decoder = ReceivedFrom(DecoderInitialize(NewDecoder, input_count, total_bytes).D, got, 0)
    /\ original \in OriginalData(decoder.Window)
    /\ encoder = EncoderObject(EncoderInitialize(input_count, total_bytes, InputData(input_count, original)))
    /\ mem = Transmitted(input_count, total_bytes, original)
    /\ call = Called("create", NewSymbol, Fecal_Success, NoSymbols, FALSE,
                     [attempted |-> FALSE, had |-> FALSE, again |-> FALSE, succeeded |-> FALSE,
                      failed |-> FALSE])
    /\ alive = TRUE
    /\ succeeded = FALSE
    /\ recovered = << >>
    /\ failures = 0

RetryInit ==
    \E input_count \in 1..MaxK :
        \E total_bytes \in input_count..(2 * GivenBytes), got \in SUBSET (0..(input_count - 1)) :
            Received(input_count, total_bytes, got)

\* AddRecovery of the next row of the encoder
RetryAdd ==
    /\ ~succeeded
    /\ call.op # "AddRecovery"
    /\ Len(decoder.Window.RecoveryData) <= MaxRow
    /\ AddRecovery(RecoverySymbol(decoder.Window, Len(decoder.Window.RecoveryData)))

\* The Decode that follows it
RetryDecode ==
    /\ call.op = "AddRecovery"
    /\ DecodeCall(NoFailure)

RetryNext == RetryAdd \/ RetryDecode

\* ENABLED RetryDecode, written out: fecal_decode can be called on any decoder, and the call
\* record changes whenever it is
RetryDecodeEnabled == alive /\ call.op = "AddRecovery"

\* The application's loop goes on while it has a step to make: weak fairness of both steps,
\* that of RetryDecode stated with its enabling condition written out
SpecRetry ==
    /\ RetryInit
    /\ [][RetryNext]_vars
    /\ WF_vars(RetryAdd)
    /\ ([]<>~RetryDecodeEnabled \/ []<><<RetryDecode>>_vars)

(***************************************************************************)
(* SetParameters on its own: the application asks for input_count columns  *)
(* and total_bytes bytes, and SetParameters runs.                          *)
(***************************************************************************)
MaxInputCount == 5
MaxTotalBytes == 12

\* The values of total_bytes around 2^32 and at the end of uint64_t
WideTotals ==
    {<< 65535, 65535, 0, 0 >>, << 0, 0, 1, 0 >>, << 1, 0, 1, 0 >>, << 2, 0, 2, 0 >>,
     << 65535, 65535, 65535, 65535 >>}

\* SetParameters(input_count, total_bytes) has been called; p is what it has left
ParametersCalled(op, input_count, total_bytes, p) ==
    Called(op, [NewSymbol EXCEPT !.Index = input_count], IF p.ok THEN Fecal_Success ELSE Fecal_InvalidInput,
           NoSymbols, FALSE, [total_bytes |-> total_bytes, set |-> p])

ParamInit ==
    /\ \E input_count \in 0..MaxInputCount :
        \E total_bytes \in {Wide(t) : t \in 0..MaxTotalBytes} \cup WideTotals :
            call = ParametersCalled("create", input_count, total_bytes,
                                    Parameters(TRUE, FALSE, 0, WideZero, WideZero, WideZero))
    /\ original = << >>
    /\ encoder = EncoderObject(EncoderInitialize(0, 0, << >>))
    /\ decoder = NewDecoder
    /\ mem = << >>
    /\ alive = TRUE
    /\ succeeded = FALSE
    /\ recovered = << >>
    /\ failures = 0

\* AppDataWindow::SetParameters of what the application has asked for
ParamNext ==
    /\ call.op = "create"
    /\ \E p \in SetParametersWide(call.symbol.Index, call.found.total_bytes) :
        /\ call' = ParametersCalled("SetParameters", call.symbol.Index, call.found.total_bytes, p)
        /\ alive' = ~p.fault
    /\ UNCHANGED << original, encoder, decoder, mem, succeeded, recovered, failures >>

SpecParameters == ParamInit /\ [][ParamNext]_vars

(***************************************************************************)
(* The encoder on its own: Encoder::Initialize, then Encode calls for any  *)
(* rows into two buffers of the application, which are reused              *)
(***************************************************************************)
\* Encoder::Initialize(input_count, input_data, total_bytes).  allocated = FALSE: an allocation
\* fails, which leaves ProductWorkspace.Data null as the workspace is allocated last
EncoderCreate(input_count, total_bytes, memory, allocated) ==
    IF allocated \/ ~SetParameters(input_count, total_bytes).ok
    THEN EncoderInitialize(input_count, total_bytes, memory)
    ELSE [result |-> Fecal_OutOfMemory, Window |-> SetParameters(input_count, total_bytes),
          ProductWorkspace |-> nullptr, memory |-> memory]

\* The byte that the application's output buffers hold before Encode writes to them
Canary == 255

\* The application's two output buffers: one byte longer than a symbol, filled with Canary
OutputBuffers(W) == [q \in {RecPtr(0), RecPtr(1)} |-> AsTuple([i \in 1..(W.SymbolBytes + 1) |-> Canary])]

\* The total_bytes the encoder is created with
TotalBytes == {1, GivenBytes}

\* What the application has asked for and got: the parameters of the two Initialize calls,
\* allocated = the allocations of Encoder::Initialize succeed, and the results
Asked(input_count, total_bytes, allocated, e) ==
    [input_count |-> input_count, total_bytes |-> total_bytes, allocated |-> allocated,
     encoder |-> e.result, decoder |-> DecoderInitialize(NewDecoder, input_count, total_bytes).result,
     again |-> FALSE]

\* The state after Encoder::Initialize has returned e and Decoder::Initialize has returned
EncoderCreated(e, data, asked) ==
    /\ original = data
    /\ encoder = EncoderObject(e)
    /\ mem = OutputBuffers(e.Window) @@ e.memory
    /\ call = Called("Initialize", NewSymbol, e.result, NoSymbols, FALSE, asked)
    /\ decoder = DecoderInitialize(NewDecoder, asked.input_count, asked.total_bytes).D
    /\ alive = TRUE
    /\ succeeded = FALSE
    /\ recovered = << >>
    /\ failures = 0

\* Encoder::Initialize with the input_data of the application
EncoderAsked(input_count, total_bytes, allocated, data) ==
    EncoderCreate(input_count, total_bytes,
                  InputData(SetParameters(input_count, total_bytes).InputCount, data), allocated)

EncInit ==
    \E input_count \in 0..MaxK, total_bytes \in TotalBytes, allocated \in BOOLEAN :
        \E data \in OriginalData(SetParameters(input_count, total_bytes)) :
            EncoderCreated(EncoderAsked(input_count, total_bytes, allocated, data), data,
                           Asked(input_count, total_bytes, allocated,
                                 EncoderAsked(input_count, total_bytes, allocated, data)))

\* The symbols the application gives to fecal_encode: a row, one of the two buffers, and
\* Bytes that is the symbol length, one less or one more
EncodeSymbols(W) ==
    {[Index |-> row, Data |-> RecPtr(b), Bytes |-> bytes] :
        row \in 0..MaxRow, b \in 0..1,
        bytes \in {W.SymbolBytes, W.SymbolBytes + 1} \cup ({W.SymbolBytes - 1} \cap Nat)}

\* fecal_encode
EncodeCall(symbol) ==
    /\ mem' = Encode(encoder, mem, symbol).memory
    /\ call' = Called("Encode", symbol, Encode(encoder, mem, symbol).result, NoSymbols, FALSE,
                      [call.found EXCEPT !.again = (call.op = "Encode")])
    /\ UNCHANGED << original, encoder, decoder, alive, succeeded, recovered, failures >>

EncNext == \E symbol \in EncodeSymbols(encoder.Window) : EncodeCall(symbol)

SpecEncoder == EncInit /\ [][EncNext]_vars

(***************************************************************************)
(* The column values on their own: GetColumnValue over the columns of a    *)
(* window of kColumnValuePeriod consecutive columns                        *)
(***************************************************************************)
\* The first column whose product column * 199 does not fit in 32 bits
WrapColumn == 21582751

\* The columns the windows start at: the first columns, and those before WrapColumn
FirstColumns == {0, 1, kColumnValuePeriod, WrapColumn - kColumnValuePeriod, WrapColumn - 252}

\* GetColumnValue(column) has returned, in the window that starts at first; values are those
\* of the columns of the window before column
ColumnValued(first, column, values) ==
    Called("GetColumnValue", [NewSymbol EXCEPT !.Index = column], GetColumnValue(column), NoSymbols, FALSE,
           [first |-> first, values |-> values])

ColumnInit ==
    /\ \E first \in FirstColumns : call = ColumnValued(first, first, {})
    /\ original = << >>
    /\ encoder = EncoderObject(EncoderInitialize(0, 0, << >>))
    /\ decoder = NewDecoder
    /\ mem = << >>
    /\ alive = TRUE
    /\ succeeded = FALSE
    /\ recovered = << >>
    /\ failures = 0

\* GetColumnValue of the next column of the window
ColumnNext ==
    /\ call.symbol.Index + 1 < call.found.first + kColumnValuePeriod
    /\ call' = ColumnValued(call.found.first, call.symbol.Index + 1, call.found.values \cup {call.result})
    /\ UNCHANGED << original, encoder, decoder, mem, alive, succeeded, recovered, failures >>

SpecColumns == ColumnInit /\ [][ColumnNext]_vars

(***************************************************************************)
(* Properties                                                              *)
(***************************************************************************)
\* The first n bytes of a buffer
Prefix(bytes, n) == SubSeq(bytes, 1, n)

\* The buffer that a symbol points to holds the original data of the symbol's column
HoldsOriginal(symbol) ==
    /\ symbol.Data \in DOMAIN mem
    /\ Prefix(mem[symbol.Data], symbol.Bytes) = original[symbol.Index]

\* The columns that the application has not given to AddOriginal
LostColumns(W) == {c \in 0..(W.InputCount - 1) : At(W.OriginalData, c).Data # OrigPtr(c)}

\* The recovered list r for the window W: one entry per lost column in ascending column order,
\* each with the column's length and the buffer of a submitted recovery symbol, no buffer twice
RecoveredList(W, r) ==
    /\ Len(r) = Cardinality(LostColumns(W))
    /\ \A i \in 1..Len(r) :
        /\ r[i].Index \in LostColumns(W)
        /\ r[i].Bytes = IF r[i].Index = W.InputCount - 1 THEN W.FinalBytes ELSE W.SymbolBytes
        /\ \E j \in 1..Len(W.RecoveryData) : W.RecoveryData[j].Data = r[i].Data
    /\ \A i, j \in 1..Len(r) : i < j => r[i].Index < r[j].Index /\ r[i].Data # r[j].Data

\* C3: when Decode returns Fecal_Success with M = K - OriginalGotCount > 0 lost columns, the
\* recovered list has exactly M entries, one per lost column in ascending column order, each
\* with Index the lost column, Bytes = F for column K-1 and B for the others, and Data the
\* buffer of a submitted recovery symbol, distinct columns in distinct buffers
C3_RecoveredList ==
    (alive /\ call.op = "Decode" /\ call.result = Fecal_Success
           /\ decoder.Window.OriginalGotCount < decoder.Window.InputCount) =>
        /\ call.out.Symbols = RecoveredDataPtr
        /\ call.out.Count = decoder.Window.InputCount - decoder.Window.OriginalGotCount
        /\ call.out.Count = Len(decoder.RecoveredData)
        /\ RecoveredList(decoder.Window, decoder.RecoveredData)

\* C3 witness: Decode has returned Fecal_Success for two lost columns of different lengths
C3_Witness ==
    /\ alive /\ call.op = "Decode" /\ call.result = Fecal_Success
    /\ decoder.Window.OriginalGotCount = 0 /\ call.out.Count = 2
    /\ decoder.RecoveredData[1].Bytes # decoder.RecoveredData[2].Bytes

\* The step is a Decode on a decoder to which all K originals have been added
DecodeOfComplete ==
    /\ alive /\ call'.op = "Decode"
    /\ decoder.Window.OriginalGotCount >= decoder.Window.InputCount

\* C4: in any decoder state in which all K originals have been added, Decode returns
\* Fecal_Success with Count = 0 and Symbols = null, and changes no decoder state and no buffer
C4_RecoveryIdentity ==
    [][DecodeOfComplete =>
          /\ alive' /\ call'.result = Fecal_Success
          /\ call'.out.Count = 0 /\ call'.out.Symbols = nullptr
          /\ decoder' = decoder /\ mem' = mem]_vars

\* C4 witness: Decode has returned on a decoder that holds all K = 2 originals and a recovery
\* symbol, with no recovery attempted before
C4_Witness ==
    /\ call.op = "Decode" /\ decoder.Window.InputCount = 2
    /\ decoder.Window.OriginalGotCount = 2
    /\ Len(decoder.Window.RecoveryData) > 0
    /\ ~call.found.attempted

\* The step is a Decode on a decoder that holds fewer than K symbols
DecodeOfTooFew ==
    /\ alive /\ call'.op = "Decode"
    /\ decoder.Window.OriginalGotCount + Len(decoder.Window.RecoveryData) < decoder.Window.InputCount

\* C5: in any state with OriginalGotCount + (number of recovery records) < K, Decode returns
\* Fecal_NeedMoreData with an empty recovered list and leaves all decoder state unchanged,
\* RecoveryAttempted and the recovery matrix included
C5_TooFewSymbols ==
    [][DecodeOfTooFew =>
          /\ alive' /\ call'.result = Fecal_NeedMoreData
          /\ call'.out.Count = 0 /\ call'.out.Symbols = nullptr
          /\ decoder' = decoder /\ mem' = mem]_vars

\* C5 witness: Decode has returned on a decoder with K = 2 that holds one recovery symbol and
\* no original, with no recovery attempted
C5_Witness ==
    /\ call.op = "Decode" /\ decoder.Window.InputCount = 2
    /\ decoder.Window.OriginalGotCount = 0
    /\ Len(decoder.Window.RecoveryData) = 1
    /\ ~decoder.RecoveryAttempted

\* The step is a Decode, and the call before it that was no GetOriginal was a Decode too
DecodeAgain == alive /\ call.decoded /\ call'.op = "Decode"

\* C6 as stated: for every reachable decoder state, when Decode is called twice in succession
\* with no AddOriginal or AddRecovery call in between, the second call returns
\* Fecal_NeedMoreData
C6_SecondDecodeAlways ==
    [][DecodeAgain => call'.result = Fecal_NeedMoreData]_vars

\* C6 amended: when Decode is called twice with no AddOriginal or AddRecovery call in between,
\* the second call returns Fecal_NeedMoreData if fewer than K originals have been added, and
\* Fecal_Success with an empty list if all K have
C6_SecondDecode ==
    [][DecodeAgain =>
          IF decoder.Window.OriginalGotCount < decoder.Window.InputCount
          THEN call'.result = Fecal_NeedMoreData /\ call'.out = NoSymbols
          ELSE call'.result = Fecal_Success /\ call'.out = NoSymbols]_vars

\* C6 witness: a second Decode has returned Fecal_NeedMoreData after the first had returned
\* Fecal_Success for a lost column
C6_Witness ==
    /\ call.op = "Decode" /\ call.found.again /\ call.found.succeeded
    /\ call.result = Fecal_NeedMoreData
    /\ decoder.Window.OriginalGotCount + Len(decoder.Window.RecoveryData) = decoder.Window.InputCount
    /\ Len(decoder.Window.RecoveryData) > 0

\* The step is an AddOriginal or AddRecovery that has returned Fecal_Success on a decoder
\* with RecoveryAttempted set
AddAfterAttempt ==
    /\ alive /\ decoder.RecoveryAttempted
    /\ call'.op \in {"AddOriginal", "AddRecovery"}
    /\ call'.result = Fecal_Success

\* The step is a Decode on a decoder with RecoveryAttempted clear that lacks an original and
\* holds at least K symbols
DecodeFresh ==
    /\ alive /\ call'.op = "Decode" /\ ~decoder.RecoveryAttempted
    /\ decoder.Window.OriginalGotCount < decoder.Window.InputCount
    /\ decoder.Window.OriginalGotCount + Len(decoder.Window.RecoveryData) >= decoder.Window.InputCount

\* C7 as stated: after a Decode call has set RecoveryAttempted, any subsequent AddOriginal or
\* AddRecovery call that returns Fecal_Success clears it
C7_AnyAddClears ==
    [][AddAfterAttempt => ~decoder'.RecoveryAttempted]_vars

\* C7 amended: after a Decode call has set RecoveryAttempted, an AddOriginal or AddRecovery
\* call that returns Fecal_Success clears it if and only if it adds a symbol the decoder did
\* not hold (a column without data, a row not in the row set); the next Decode, given
\* enough symbols, then attempts the recovery again and sets the flag
C7_NewAddClears ==
    [][/\ AddAfterAttempt => (decoder'.RecoveryAttempted <=> call'.found.had)
       /\ DecodeFresh => (alive' => decoder'.RecoveryAttempted)]_vars

\* C7 witness: an AddRecovery of a new row has returned Fecal_Success on a decoder with
\* RecoveryAttempted set
C7_Witness ==
    /\ call.op = "AddRecovery" /\ call.result = Fecal_Success
    /\ call.found.attempted /\ ~call.found.had
    /\ ~decoder.RecoveryAttempted

\* SetParameters has accepted K >= 1 and T >= K
ParametersAccepted ==
    /\ call.op = "SetParameters" /\ alive /\ call.found.set.ok
    /\ call.symbol.Index >= 1
    /\ ~WideLess(call.found.total_bytes, Wide(call.symbol.Index))

\* b = ceil(t / k) for k >= 1 and t >= 1: k * (b - 1) < t <= k * b
IsCeiling(b, t, k) ==
    /\ b # WideZero
    /\ ~WideLess(WideMul(b, k), t)
    /\ WideLess(WideMul(WideSub(b, Wide(1)), k), t)

\* C9: for every K >= 1 and T >= K accepted by SetParameters, SymbolBytes B = ceil(T / K) and
\* 1 <= FinalBytes F <= B
C9_SymbolBytes ==
    ParametersAccepted =>
        /\ IsCeiling(call.found.set.SymbolBytes, call.found.total_bytes, call.symbol.Index)
        /\ call.found.set.FinalBytes # WideZero
        /\ ~WideLess(call.found.set.SymbolBytes, call.found.set.FinalBytes)

\* C10: for every K >= 1 and T >= K accepted by SetParameters, (K - 1) * B + F = T: the K
\* column lengths that GetColumnBytes returns sum to TotalBytes
C10_ColumnBytesSum ==
    ParametersAccepted =>
        WideAdd(WideMul(call.found.set.SymbolBytes, call.symbol.Index - 1), call.found.set.FinalBytes)
            = call.found.total_bytes

\* C11: once a Decode call has returned Fecal_Success with recovered symbols, the bytes that
\* these symbols point to, and the data that GetOriginal returns for their columns, equal the
\* original data in every later state; stated for the runs in which no allocation fails
C11_RecoveredDataStays ==
    (alive /\ failures = 0) =>
        \A i \in 1..Len(recovered) :
            /\ HoldsOriginal(recovered[i])
            /\ GetOriginal(decoder, recovered[i].Index).result = Fecal_Success
            /\ HoldsOriginal(GetOriginal(decoder, recovered[i].Index).symbol)

\* C2: when the application adds the recovery symbols of rows 0, 1, 2, ... one at a time to
\* a decoder that holds the received originals, and calls Decode after each, every Decode
\* returns Fecal_NeedMoreData or Fecal_Success, and eventually one returns Fecal_Success
C2_RetrySucceeds ==
    /\ [](call.op = "Decode" => call.result \in {Fecal_NeedMoreData, Fecal_Success})
    /\ <>(call.op = "Decode" /\ call.result = Fecal_Success)

\* C2 witness: Decode has returned Fecal_Success for two lost columns at the second row, after
\* the Decode at the first row
C2_Witness ==
    /\ call.op = "Decode" /\ call.result = Fecal_Success /\ call.out.Count = 2
    /\ Len(decoder.Window.RecoveryData) = 2
    /\ decoder.Window.RecoveryData[1].Row = 0 /\ decoder.Window.RecoveryData[2].Row = 1

\* C1: whatever the originals received, the rows added and the order of the AddOriginal,
\* AddRecovery and Decode calls, the first Decode that returns Fecal_Success gives for each lost
\* column a symbol whose buffer starts with the column's original bytes.  (The Decode calls
\* meant are those in which no allocation fails; an earlier call may have returned
\* Fecal_OutOfMemory.)
C1_RoundTrip ==
    (alive /\ call.op = "Decode" /\ call.result = Fecal_Success /\ ~call.found.succeeded
           /\ ~call.found.failed) =>
        \A i \in 1..call.out.Count :
            Prefix(mem[decoder.RecoveredData[i].Data],
                   GetColumnBytes(decoder.Window, decoder.RecoveredData[i].Index))
                = original[decoder.RecoveredData[i].Index]

\* The Decode call that has just returned is the first one to return Fecal_Success
FirstSuccess ==
    alive /\ call.op = "Decode" /\ call.result = Fecal_Success /\ ~call.found.succeeded

\* GetOriginal returns for every column a buffer that holds the column's original data
AllColumnsHeld ==
    \A c \in 0..(decoder.Window.InputCount - 1) :
        /\ GetOriginal(decoder, c).result = Fecal_Success
        /\ HoldsOriginal(GetOriginal(decoder, c).symbol)

FreshEncoder ==
    EncoderCreate(encoder.Window.InputCount, encoder.Window.TotalBytes,
                  InputData(encoder.Window.InputCount, original), TRUE)

\* The bytes that Encode(symbol) writes when it is the first call on the encoder fresh
FreshOutput(fresh, symbol) ==
    Prefix(Encode(EncoderObject(fresh), OutputBuffers(fresh.Window) @@ fresh.memory, symbol).memory[symbol.Data],
           fresh.Window.SymbolBytes)

\* The lane sums and the original buffers are as in the encoder fresh, and the symbol that
\* the last Encode has written is the one the encoder fresh writes
SameAsFresh(fresh) ==
    /\ \A q \in (DOMAIN fresh.memory) \ {EncProdPtr} : mem[q] = fresh.memory[q]
    /\ (call.op = "Encode" /\ call.result = Fecal_Success) =>
            Prefix(mem[call.symbol.Data], fresh.Window.SymbolBytes) = FreshOutput(fresh, call.symbol)

\* C13: after Initialize, whatever Encode calls were made before (any rows, either output
\* buffer, whatever the buffer held), the lane sums and the original buffers are as Initialize
\* left them, and the bytes that an Encode call has written are those that the same call
\* writes as the first call on a freshly initialized encoder
C13_EncodeDeterministic == (encoder.ProductWorkspace # nullptr) => SameAsFresh(FreshEncoder)

\* C13 witness: an Encode of row 2 for two columns has succeeded after an earlier Encode call,
\* into a buffer whose other holds another symbol
C13_Witness ==
    /\ call.op = "Encode" /\ call.result = Fecal_Success /\ call.found.again
    /\ call.symbol.Index = 2 /\ encoder.Window.InputCount = 2
    /\ mem[RecPtr(0)][1] # Canary /\ mem[RecPtr(1)][1] # Canary
    /\ mem[RecPtr(0)] # mem[RecPtr(1)]

\* No step changes the bytes of this kind of the application's buffers
RecoveryBuffersSame == \A row \in 0..MaxRow : mem'[RecPtr(row)] = mem[RecPtr(row)]
OriginalBuffersSame == \A c \in 0..(decoder.Window.InputCount - 1) : mem'[OrigPtr(c)] = mem[OrigPtr(c)]

\* GenerateMatrix has returned gm with the matrix built, and GaussianElimination returns true
EliminationSucceeds(gm) ==
    ~gm.fault /\ gm.ok /\ GaussianElimination(gm.RecoveryMatrix, gm.Window, gm.memory).ok

\* Decode(D) gets to GaussianElimination, which returns true
GESucceeds(D, memory, alloc) ==
    /\ D.Window.OriginalGotCount < D.Window.InputCount
    /\ D.Window.OriginalGotCount + Len(D.Window.RecoveryData) >= D.Window.InputCount
    /\ ~D.RecoveryAttempted
    /\ EliminationSucceeds(GenerateMatrix(D.RecoveryMatrix, D.Window, memory, alloc.matrix))

\* C14: no call changes the bytes of a buffer given to AddOriginal; the bytes of a recovery
\* buffer change only in a Decode call whose Gaussian elimination succeeded; a Decode that
\* returns Fecal_NeedMoreData leaves every recovery buffer as it was
C14_WritesOnlyRecovery ==
    [][/\ OriginalBuffersSame
       /\ ~RecoveryBuffersSame =>
            \E alloc \in AllocOutcomes : DecodeCall(alloc) /\ GESucceeds(decoder, mem, alloc)
       /\ (call'.op = "Decode" /\ call'.result = Fecal_NeedMoreData) => RecoveryBuffersSame]_vars

\* C14 witness: a Decode has returned Fecal_Success for two lost columns and has left in a
\* recovery buffer other bytes than the encoder has written
C14_Witness ==
    /\ call.op = "Decode" /\ call.result = Fecal_Success /\ call.out.Count = 2
    /\ \E row \in Rows :
        mem[RecPtr(row)] # Transmitted(decoder.Window.InputCount, decoder.Window.TotalBytes, original)[RecPtr(row)]

\* C15: a Decode call in which an allocation has failed (the recovery matrix, the product
\* workspace or a lane sum) returns Fecal_OutOfMemory
C15_AllocationFailureReturned ==
    (alive /\ call.op = "Decode" /\ call.found.failed) => call.result = Fecal_OutOfMemory

\* The symbols that the claim says are rejected
InvalidOriginal(W, symbol) ==
    \/ symbol.Index >= W.InputCount
    \/ symbol.Data = nullptr
    \/ symbol.Bytes # GetColumnBytes(W, symbol.Index)
InvalidRecovery(W, symbol) == symbol.Data = nullptr \/ symbol.Bytes # W.SymbolBytes

\* The step is a valid AddOriginal for a column that already has data, or a valid
\* AddRecovery for a row already in the row set
DuplicateAdd ==
    /\ alive
    /\ \/ /\ call'.op = "AddOriginal" /\ ~InvalidOriginal(decoder.Window, call'.symbol)
          /\ At(decoder.Window.OriginalData, call'.symbol.Index).Data # nullptr
       \/ /\ call'.op = "AddRecovery" /\ ~InvalidRecovery(decoder.Window, call'.symbol)
          /\ call'.symbol.Index \in decoder.Window.RowSet

\* C8: a valid AddOriginal for a column that already has data, or a valid AddRecovery for a
\* row already in the row set, returns Fecal_Success and leaves the whole decoder state
\* unchanged: stored pointers, OriginalGotCount, subwindow bits and counts, the recovery list,
\* the row set, RecoveryAttempted and all matrix state
C8_IdempotentAdds ==
    [][DuplicateAdd => (call'.result = Fecal_Success /\ decoder' = decoder /\ mem' = mem)]_vars

\* C8 witness: an AddOriginal has returned for a column that a Decode has recovered into a
\* recovery buffer, with RecoveryAttempted set
C8_Witness ==
    /\ call.op = "AddOriginal" /\ call.result = Fecal_Success /\ call.found.had
    /\ call.symbol.Index < decoder.Window.InputCount
    /\ At(decoder.Window.OriginalData, call.symbol.Index).Data # call.symbol.Data
    /\ decoder.RecoveryAttempted
    /\ decoder.Window.OriginalGotCount = 0

\* C16: AddOriginal with Index >= K, with Data null or with Bytes other than the column's
\* length, and AddRecovery with Data null or with Bytes other than the symbol length, return
\* Fecal_InvalidInput and leave the decoder, RecoveryAttempted included, and the memory as
\* they were
C16_InvalidSymbolsRejected ==
    [][/\ (call'.op = "AddOriginal" /\ InvalidOriginal(decoder.Window, call'.symbol)) =>
            (call'.result = Fecal_InvalidInput /\ decoder' = decoder /\ mem' = mem)
       /\ (call'.op = "AddRecovery" /\ InvalidRecovery(decoder.Window, call'.symbol)) =>
            (call'.result = Fecal_InvalidInput /\ decoder' = decoder /\ mem' = mem)]_vars

\* C16 witness: after a Decode attempt that needed more data, an AddRecovery with Bytes # B has
\* been rejected and RecoveryAttempted is still set
C16_Witness ==
    /\ call.op = "AddRecovery" /\ call.result = Fecal_InvalidInput
    /\ call.symbol.Data # nullptr /\ call.symbol.Bytes # decoder.Window.SymbolBytes
    /\ call.found.attempted /\ decoder.RecoveryAttempted
    /\ ~succeeded

\* The step is an AddOriginal that has accepted the symbol of column c
AddedOriginal(c) ==
    call'.op = "AddOriginal" /\ call'.result = Fecal_Success /\ call'.symbol.Index = c

\* The step is a Decode that has returned Fecal_Success with the symbol i of its result for column c
RecoveredColumn(c, i) ==
    /\ call'.op = "Decode" /\ call'.result = Fecal_Success /\ alive'
    /\ i \in 1..call'.out.Count
    /\ decoder'.RecoveredData[i].Index = c

\* What GetOriginal(c) returns after a step, given what it returned before
GetOriginalAfter(c, before, after) ==
    /\ (after.result = Fecal_Success) <=>
            \/ before.result = Fecal_Success
            \/ AddedOriginal(c)
            \/ \E i \in 1..Len(decoder'.RecoveredData) : RecoveredColumn(c, i)
    /\ after.result = Fecal_Success =>
            /\ after.symbol.Data # nullptr
            /\ after.symbol.Bytes = GetColumnBytes(decoder.Window, c)
            /\ (before.result # Fecal_Success /\ AddedOriginal(c)) => after.symbol.Data = call'.symbol.Data
            /\ \A i \in 1..Len(decoder'.RecoveredData) :
                    RecoveredColumn(c, i) => after.symbol.Data = decoder'.RecoveredData[i].Data
    /\ after.result # Fecal_Success =>
            after = [result |-> Fecal_NeedMoreData, symbol |-> [Index |-> c, Data |-> nullptr, Bytes |-> 0]]

\* Before any call, GetOriginal knows no column
NoColumnKnown ==
    \A c \in 0..(decoder.Window.InputCount - 1) : GetOriginal(decoder, c).result = Fecal_NeedMoreData

\* What a step leaves for GetOriginal to return, and what a GetOriginal call does
GetOriginalStep ==
    /\ call.op = "create" => NoColumnKnown
    /\ alive' =>
        /\ \A c \in 0..(decoder.Window.InputCount - 1) :
                GetOriginalAfter(c, GetOriginal(decoder, c), GetOriginal(decoder', c))
        /\ GetOriginal(decoder', decoder.Window.InputCount).result = Fecal_InvalidInput
    /\ call'.op = "GetOriginal" =>
        /\ decoder' = decoder /\ mem' = mem
        /\ call'.result = GetOriginal(decoder, call'.symbol.Index).result
        /\ call'.out = GetOriginal(decoder, call'.symbol.Index).symbol

\* C19: GetOriginal(c) returns Fecal_InvalidInput for c >= K.  For c < K it returns
\* Fecal_NeedMoreData with Data null and Bytes 0 from the start until an AddOriginal has
\* accepted column c or a Decode has returned Fecal_Success with a symbol for column c, and from
\* then on Fecal_Success with the stored pointer and the column's length.  The call leaves the
\* decoder as it was
C19_GetOriginal == [][GetOriginalStep]_vars

\* C19 witness: GetOriginal(0) has returned Fecal_Success with a recovery buffer, for a column
\* that a Decode has recovered, of two columns
C19_Witness ==
    /\ call.op = "GetOriginal" /\ call.result = Fecal_Success /\ call.symbol.Index = 0
    /\ call.out.Data[1] = "rec" /\ call.out.Bytes = decoder.Window.SymbolBytes
    /\ decoder.Window.InputCount = 2
    /\ GetOriginal(decoder, 1).symbol.Data[1] = "orig"

\* The parameters asked for are those that SetParameters takes
ValidParameters(asked) == asked.input_count >= 1 /\ asked.total_bytes >= asked.input_count

TailSame(ptr, n) ==
    /\ Len(mem'[ptr]) = Len(mem[ptr])
    /\ \A i \in (n + 1)..Len(mem[ptr]) : mem'[ptr][i] = mem[ptr][i]

\* What an Encode(symbol) call does on the encoder fresh, initialized or not
EncodeStep(symbol, fresh) ==
    IF symbol.Bytes # encoder.Window.SymbolBytes \/ call.found.encoder # Fecal_Success
    THEN call'.result = Fecal_InvalidInput /\ mem' = mem /\ encoder' = encoder
    ELSE /\ call'.result = Fecal_Success
         /\ Prefix(mem'[symbol.Data], symbol.Bytes) = FreshOutput(fresh, symbol)
         /\ TailSame(symbol.Data, symbol.Bytes)
         /\ \A q \in {RecPtr(0), RecPtr(1)} \ {symbol.Data} : mem'[q] = mem[q]

\* C18: Encode returns Fecal_InvalidInput and leaves the output buffer, the other memory and
\* the encoder as they were when Bytes is not the symbol length B (one less, one more) or when
\* Initialize has not returned Fecal_Success; otherwise it returns Fecal_Success, the first B
\* bytes of the buffer are the symbol of the row, and the bytes after them are as they were
C18_EncodeValidated == [][call'.op = "Encode" => EncodeStep(call'.symbol, FreshEncoder)]_vars

\* C18 witness: an Encode with Bytes = B + 1 has been rejected on an initialized encoder, for
\* a buffer that an earlier Encode has written a symbol to
C18_Witness ==
    /\ call.op = "Encode" /\ call.result = Fecal_InvalidInput /\ call.found.again
    /\ call.found.encoder = Fecal_Success
    /\ call.symbol.Bytes = encoder.Window.SymbolBytes + 1
    /\ mem[call.symbol.Data][1] # Canary

\* C20: GetColumnValue(c) is 3 + (199 * c mod 253), a value in 3..255, for every column c, and
\* over kColumnValuePeriod consecutive columns no value comes twice and every value of 3..255
\* comes
C20_ColumnValues ==
    /\ call.result \in 3..255
    /\ call.result = 3 + ((199 * (call.symbol.Index % 253)) % 253)
    /\ call.result \notin call.found.values
    /\ call.symbol.Index = call.found.first + kColumnValuePeriod - 1 =>
            call.found.values \cup {call.result} = 3..255

(***************************************************************************)
(* The application that collects rows: the received originals are added,   *)
(* then the recovery symbols of consecutive rows from any first row on,    *)
(* with a Decode whenever the application chooses.  No allocation fails.   *)
(* The rows go beyond the kExtraRows rows that the matrix allocates ahead. *)
(***************************************************************************)
\* The memory after Encode has been called for the rows from row to MaxMatrixRow
RECURSIVE EncodeMore(_, _, _)
EncodedMore(E, memory, row) == Strict(memory, EncodeMore(E, memory, row + 1))
EncodeMore(E, memory, row) ==
    IF row > MaxMatrixRow THEN memory
    ELSE EncodedMore(E, Encode(E, Store(memory, RecPtr(row), ZeroBuffer(E.Window.SymbolBytes)),
                               RecoverySymbol(E.Window, row)).memory, row)

\* The caller's buffers once the encoder has run for these rows
Collected(E, input_count) ==
    [q \in {OrigPtr(c) : c \in 0..(input_count - 1)} \cup {RecPtr(r) : r \in 0..MaxMatrixRow} |->
        EncodeMore(E, E.memory, 0)[q]]

MatrixInit ==
    \E input_count \in 1..MaxK, got \in SUBSET (0..(MaxK - 1)) :
        /\ got \subseteq 0..(input_count - 1)
        /\ decoder = ReceivedFrom(DecoderInitialize(NewDecoder, input_count, GivenBytes).D, got, 0)
        /\ original \in OriginalData(decoder.Window)
        /\ encoder = EncoderObject(EncoderInitialize(input_count, GivenBytes, InputData(input_count, original)))
        /\ mem = Collected(EncoderInitialize(input_count, GivenBytes, InputData(input_count, original)),
                           input_count)
        /\ call = Called("create", NewSymbol, Fecal_Success, NoSymbols, FALSE,
                         [attempted |-> FALSE, had |-> FALSE, again |-> FALSE, succeeded |-> FALSE,
                          failed |-> FALSE])
        /\ alive = TRUE
        /\ succeeded = FALSE
        /\ recovered = << >>
        /\ failures = 0

\* AddRecovery of the first row, or of the row that follows the latest one
MatrixAdd ==
    \E row \in 0..MaxMatrixRow :
        /\ decoder.Window.RecoveryData # << >> =>
             row = decoder.Window.RecoveryData[Len(decoder.Window.RecoveryData)].Row + 1
        /\ AddRecovery(RecoverySymbol(decoder.Window, row))

\* fecal_decode, whenever the application calls it
MatrixDecode == DecodeCall(NoFailure)

MatrixNext == MatrixAdd \/ MatrixDecode

SpecMatrix == MatrixInit /\ [][MatrixNext]_vars

(***************************************************************************)
(* The window on its own: FindNextLostElement over windows of up to three  *)
(* subwindows, where all columns but some at the edges of the subwindows   *)
(* have arrived, or only some of those                                     *)
(***************************************************************************)
\* The numbers of columns: one subwindow or less, and up to a column more than two subwindows
WindowCounts ==
    {1, 2, kSubwindowSize - 1, kSubwindowSize, kSubwindowSize + 1, kSubwindowSize + 2,
     2 * kSubwindowSize, 2 * kSubwindowSize + 1}

\* The columns at the edges of the subwindows and of the window
Edges(K) ==
    {c \in {0, 1, kSubwindowSize - 1, kSubwindowSize, kSubwindowSize + 1, K - 2, K - 1} : 0 <= c /\ c < K}

\* The elements FindNextLostElement is called for
Starts(K) == Edges(K) \cup {c + 1 : c \in Edges(K)} \cup {K + 1, K + kSubwindowSize}

\* FindNextLostElement(elementStart) has returned
ElementFound(W, elementStart) ==
    Called("FindNextLostElement", [NewSymbol EXCEPT !.Index = elementStart],
           FindNextLostElement(W, elementStart), NoSymbols, FALSE,
           [nextElement |-> IF elementStart >= W.InputCount THEN W.InputCount
                            ELSE NextElementFrom(W, elementStart \div kSubwindowSize,
                                                 elementStart % kSubwindowSize)])

\* The decoder after AddOriginal of the columns of got from first to last, in ascending order
RECURSIVE ReceivedRange(_, _, _, _)
ReceivedUpper(D, got, first, last) == Strict(D, ReceivedRange(D, got, first, last))
ReceivedRange(D, got, first, last) ==
    IF first > last THEN D
    ELSE IF first = last
    THEN (IF first \in got THEN DecoderAddOriginal(D, OriginalSymbol(D.Window, first)).D ELSE D)
    ELSE ReceivedUpper(ReceivedRange(D, got, first, (first + last) \div 2), got,
                       (first + last) \div 2 + 1, last)

WindowInit ==
    /\ \E input_count \in WindowCounts :
        \E edge \in SUBSET Edges(input_count), most \in BOOLEAN :
            decoder = ReceivedRange(DecoderInitialize(NewDecoder, input_count, input_count).D,
                                    IF most THEN 0..(input_count - 1) \ edge ELSE edge,
                                    0, input_count - 1)
    /\ call = Called("create", NewSymbol, Fecal_Success, NoSymbols, FALSE, [nextElement |-> 0])
    /\ original = << >>
    /\ encoder = EncoderObject(EncoderInitialize(0, 0, << >>))
    /\ mem = << >>
    /\ alive = TRUE
    /\ succeeded = FALSE
    /\ recovered = << >>
    /\ failures = 0

\* fecal_decoder_add_original for a column at an edge
WindowAdd(column) ==
    /\ decoder' = DecoderAddOriginal(decoder, OriginalSymbol(decoder.Window, column)).D
    /\ call' = Called("AddOriginal", OriginalSymbol(decoder.Window, column),
                      DecoderAddOriginal(decoder, OriginalSymbol(decoder.Window, column)).result,
                      NoSymbols, FALSE, [nextElement |-> 0])
    /\ UNCHANGED << original, encoder, mem, alive, succeeded, recovered, failures >>

\* DecoderAppDataWindow::FindNextLostElement(elementStart)
WindowFind(elementStart) ==
    /\ call' = ElementFound(decoder.Window, elementStart)
    /\ UNCHANGED << original, encoder, decoder, mem, alive, succeeded, recovered, failures >>

WindowNext ==
    \/ \E column \in Edges(decoder.Window.InputCount) : WindowAdd(column)
    \/ \E elementStart \in Starts(decoder.Window.InputCount) : WindowFind(elementStart)

SpecWindow == WindowInit /\ [][WindowNext]_vars

(***************************************************************************)
(* The recovery matrix                                                     *)
(***************************************************************************)
\* The originals of an encoder of K columns of one byte: column c holds 1, the others 0
UnitData(K, c) == [q \in {OrigPtr(x) : x \in 0..(K - 1)} |-> IF q = OrigPtr(c) THEN << 1 >> ELSE << 0 >>]

\* Encoder::Initialize for these originals
UnitEncoder(K, c) == EncoderInitialize(K, K, UnitData(K, c))

\* The byte Encoder::Encode(row) writes for the encoder E
EncodedUnit(E, row) ==
    Encode(E, Store(E.memory, RecPtr(row), << 0 >>), RecoverySymbol(E.Window, row)).memory[RecPtr(row)][1]

\* The weight Encoder::Encode(row) gives to Original[c] among K columns: what it writes when
\* Original[c] is the byte 1 and every other original is 0
EncoderCoefficients ==
    [K \in 1..MaxK |->
        [row \in 0..(TableRows - 1) |-> [c \in 0..(K - 1) |-> EncodedUnit(UnitEncoder(K, c), row)]]]

\* Decode of D goes on to GenerateMatrix
Attempts(D) ==
    /\ D.Window.OriginalGotCount < D.Window.InputCount
    /\ D.Window.OriginalGotCount + Len(D.Window.RecoveryData) >= D.Window.InputCount
    /\ ~D.RecoveryAttempted

\* The first row GenerateMatrix fills for the matrix RM and the window W
FirstFilled(RM, W) ==
    IF W.InputCount - W.OriginalGotCount # Len(RM.Columns) THEN 0 ELSE RM.FilledRows

\* The cell at column j that the row loop of GenerateMatrix writes for the recovery row at index ii
\* of the matrix RM
WrittenCell(RM, W, data, ii, j) ==
    GenerateRow(data, ii * RM.Matrix.AllocatedColumns, RM.Columns, W, At(W.RecoveryData, ii).Row)
        [ii * RM.Matrix.AllocatedColumns + j + 1]

\* When GenerateMatrix has returned gm with the matrix built: the cells of the lost columns that
\* it writes, and those it has left in the rows from start on when it has no pivot to resume
\* from, are the weights of the encoder
CellsAgree(gm, start) ==
    (gm.ok /\ ~gm.fault) =>
    \A ii \in 0..(Len(gm.Window.RecoveryData) - 1), j \in 0..(Len(gm.RecoveryMatrix.Columns) - 1) :
        At(gm.Window.OriginalData, gm.RecoveryMatrix.Columns[j + 1].Column).Data = nullptr =>
            /\ WrittenCell(gm.RecoveryMatrix, gm.Window, gm.memory[MatrixPtr], ii, j)
                 = EncoderCoefficients[gm.Window.InputCount][At(gm.Window.RecoveryData, ii).Row]
                                      [gm.RecoveryMatrix.Columns[j + 1].Column]
            /\ (ii >= start /\ gm.RecoveryMatrix.GEResumePivot = 0) =>
                 MatrixGet(gm.RecoveryMatrix.Matrix, gm.memory, ii, j)
                   = EncoderCoefficients[gm.Window.InputCount][At(gm.Window.RecoveryData, ii).Row]
                                        [gm.RecoveryMatrix.Columns[j + 1].Column]

Minor(m, i) ==
    AsTuple([r \in 1..(Len(m) - 1) |-> SubSeq(m[IF r < i THEN r ELSE r + 1], 2, Len(m))])

\* The determinant over GF(2^8) of the square matrix m, expanded along its first column
RECURSIVE Determinant(_)
RECURSIVE CofactorSum(_, _)
CofactorSum(m, i) ==
    IF i > Len(m) THEN 0
    ELSE Xor8(gf256_mul(m[i][1], Determinant(Minor(m, i))), CofactorSum(m, i + 1))
Determinant(m) == IF Len(m) = 0 THEN 1 ELSE CofactorSum(m, 1)

\* The weights the encoder gives to the columns of Columns in the recovery row at index ii of W
CoefficientRow(W, Columns, ii) ==
    AsTuple([j \in 1..Len(Columns) |->
        EncoderCoefficients[W.InputCount][At(W.RecoveryData, ii).Row][Columns[j].Column]])

\* The increasing sequences of count indices of recovery rows of W
RowChoices(W, count) ==
    {q \in [1..count -> 0..(Len(W.RecoveryData) - 1)] : \A a, b \in 1..count : a < b => q[a] < q[b]}

\* Some Len(Columns) of the recovery rows of W are linearly independent over the columns of
\* Columns: the coefficient matrix has the rank Len(Columns)
FullRank(W, Columns) ==
    \E q \in RowChoices(W, Len(Columns)) :
        Determinant(AsTuple([a \in 1..Len(Columns) |-> CoefficientRow(W, Columns, q[a])])) # 0

\* GaussianElimination on what GenerateMatrix has returned succeeds exactly when the coefficient
\* matrix has full rank
Complete(gm) ==
    (gm.ok /\ ~gm.fault) =>
        (GaussianElimination(gm.RecoveryMatrix, gm.Window, gm.memory).ok
            <=> FullRank(gm.Window, gm.RecoveryMatrix.Columns))

\* C22: in a Decode call that reaches GaussianElimination (so R >= M), from scratch or resumed,
\* GaussianElimination returns false only if the R x M coefficient matrix has a rank below M,
\* and returns true whenever some M of the received rows are linearly independent
C22_GEComplete ==
    [][(call'.op = "Decode" /\ alive /\ Attempts(decoder)) =>
          Complete(GenerateMatrix(decoder.RecoveryMatrix, decoder.Window, mem, TRUE))]_vars

\* C22 witness: a Decode call has returned Fecal_Success from an elimination that was resumed at
\* pivot 1, where an earlier attempt on the same two lost columns had found no candidate
C22_Witness ==
    /\ call.op = "Decode" /\ call.result = Fecal_Success /\ ~call.found.succeeded
    /\ failures = 0
    /\ Len(decoder.RecoveryMatrix.Columns) = 2 /\ decoder.RecoveryMatrix.GEResumePivot = 1
    /\ Len(decoder.Window.RecoveryData) = 3

\* The cell (Pivots[q], j) of the matrix RM whose bytes are data
PivotCell(RM, data, q, j) == data[At(RM.Pivots, q) * RM.Matrix.AllocatedColumns + j + 1]

\* The sum over the pivots p, p + 1, ... below q and up to column j of the multiplier stored at
\* (Pivots[q], p) times the cell (Pivots[p], j) of pivot row p
RECURSIVE LowerSum(_, _, _, _, _)
LowerSum(RM, data, q, j, p) ==
    IF p >= q \/ p > j THEN 0
    ELSE Xor8(gf256_mul(PivotCell(RM, data, q, p), PivotCell(RM, data, p, j)),
              LowerSum(RM, data, q, j, p + 1))

\* The row of pivot q as the stored multipliers and the pivot rows give it back
Factored(RM, data, q, j) ==
    Xor8(LowerSum(RM, data, q, j, 0), IF j >= q THEN PivotCell(RM, data, q, j) ELSE 0)

\* Pivots is a permutation of the indices of the rows
IsPermutation(Pivots, rows) ==
    Len(Pivots) = rows /\ {Pivots[k] : k \in 1..rows} = 0..(rows - 1)

\* The elimination ge has succeeded for rows generated from the encoder's weights: Pivots is a
\* permutation, every pivot is non-zero, and the rows of the pivots are factored
Factorised(ge) ==
    ge.ok =>
        /\ IsPermutation(ge.RecoveryMatrix.Pivots, Len(ge.Window.RecoveryData))
        /\ \A q \in 0..(Len(ge.RecoveryMatrix.Columns) - 1) :
            /\ PivotCell(ge.RecoveryMatrix, ge.memory[MatrixPtr], q, q) # 0
            /\ \A j \in 0..(Len(ge.RecoveryMatrix.Columns) - 1) :
                 Factored(ge.RecoveryMatrix, ge.memory[MatrixPtr], q, j)
                    = CoefficientRow(ge.Window, ge.RecoveryMatrix.Columns,
                                     At(ge.RecoveryMatrix.Pivots, q))[j + 1]

\* What GenerateMatrix has returned is eliminated and factorised
FactorisedFrom(gm) ==
    (gm.ok /\ ~gm.fault) => Factorised(GaussianElimination(gm.RecoveryMatrix, gm.Window, gm.memory))

\* C23: after GaussianElimination has returned true, Pivots is a permutation of the row indices,
\* the cell (Pivots[p], p) is non-zero for every p < M, and the cells (Pivots[q], p), p < q < M,
\* hold the multipliers, so that every generated row of a pivot is its upper-triangular
\* remainder plus the sum of the multipliers times the rows of the earlier pivots
C23_LUFactorisation ==
    [][(call'.op = "Decode" /\ alive /\ Attempts(decoder)) =>
          FactorisedFrom(GenerateMatrix(decoder.RecoveryMatrix, decoder.Window, mem, TRUE))]_vars

\* The sum over the pivots p, p + 1, ... below G and up to column j of the multiplier stored at
\* (ii, p) times the cell (Pivots[p], j)
RECURSIVE ResumedSum(_, _, _, _, _, _)
ResumedSum(RM, data, ii, j, p, G) ==
    IF p >= G \/ p > j THEN 0
    ELSE Xor8(gf256_mul(data[ii * RM.Matrix.AllocatedColumns + p + 1], PivotCell(RM, data, p, j)),
              ResumedSum(RM, data, ii, j, p + 1, G))

\* The cell (ii, j) of the row as generated, given back from the row that the pivots
\* 0..GEResumePivot-1 have eliminated in increasing order
Resumed(RM, data, ii, j) ==
    Xor8(ResumedSum(RM, data, ii, j, 0, RM.GEResumePivot),
         IF j >= RM.GEResumePivot THEN data[ii * RM.Matrix.AllocatedColumns + j + 1] ELSE 0)

\* GenerateMatrix has returned gm for the matrix RM of as many columns: the rows below FilledRows
\* and their pivots are as they were, the rows from FilledRows on are generated and eliminated
\* by the pivots found so far, and their pivots are their indices
RowsKept(RM, memory, gm) ==
    (gm.ok /\ ~gm.fault) =>
        /\ gm.RecoveryMatrix.Columns = RM.Columns
        /\ gm.RecoveryMatrix.GEResumePivot = RM.GEResumePivot
        /\ gm.RecoveryMatrix.FilledRows = Len(gm.Window.RecoveryData)
        /\ Len(gm.RecoveryMatrix.Pivots) = Len(gm.Window.RecoveryData)
        /\ \A ii \in 0..(RM.FilledRows - 1) :
            /\ At(gm.RecoveryMatrix.Pivots, ii) = At(RM.Pivots, ii)
            /\ \A j \in 0..(Len(RM.Columns) - 1) :
                 MatrixGet(gm.RecoveryMatrix.Matrix, gm.memory, ii, j) = MatrixGet(RM.Matrix, memory, ii, j)
        /\ \A ii \in RM.FilledRows..(Len(gm.Window.RecoveryData) - 1) :
            /\ At(gm.RecoveryMatrix.Pivots, ii) = ii
            /\ \A j \in 0..(Len(RM.Columns) - 1) :
                 Resumed(gm.RecoveryMatrix, gm.memory[MatrixPtr], ii, j)
                    = WrittenCell(gm.RecoveryMatrix, gm.Window, gm.memory[MatrixPtr], ii, j)

\* C24: a GenerateMatrix that finds the count of lost columns unchanged writes only the rows
\* FilledRows..R-1, each generated and then eliminated by the pivots 0..GEResumePivot-1 in
\* increasing order; the cells of the rows below FilledRows, also when Resize allocates a new
\* buffer, and Pivots[0..FilledRows) are unchanged, and the new entries are Pivots[i] = i
C24_RowsAddedFrame ==
    [][(/\ call'.op = "Decode" /\ alive /\ Attempts(decoder)
        /\ decoder.Window.InputCount - decoder.Window.OriginalGotCount = Len(decoder.RecoveryMatrix.Columns)) =>
          RowsKept(decoder.RecoveryMatrix, mem,
                   GenerateMatrix(decoder.RecoveryMatrix, decoder.Window, mem, TRUE))]_vars

\* C24 witness: a Decode call, seven rows or more held for two lost columns, has returned
\* Fecal_Success from an elimination resumed at pivot 1 on a matrix that Resize has moved to a
\* new buffer: the rows of the earlier attempt were kept
C24_Witness ==
    /\ call.op = "Decode" /\ call.result = Fecal_Success /\ ~call.found.succeeded
    /\ Len(decoder.RecoveryMatrix.Columns) = 2 /\ decoder.RecoveryMatrix.GEResumePivot = 1
    /\ Len(decoder.Window.RecoveryData) > 2 + kExtraRows
    /\ decoder.RecoveryMatrix.Matrix.AllocatedRows = Len(decoder.Window.RecoveryData) + kExtraRows

\* The columns of W without data, in ascending order
MissingColumns(W) == {c \in 0..(W.InputCount - 1) : At(W.OriginalData, c).Data = nullptr}
RECURSIVE Ascending(_)
Least(S) == CHOOSE c \in S : \A d \in S : c <= d
Ascending(S) == IF S = {} THEN << >> ELSE << Least(S) >> \o Ascending(S \ {Least(S)})

\* The cells of the rows and columns in use are the same in gm and in fresh
SameCells(gm, fresh) ==
    \A ii \in 0..(Len(gm.Window.RecoveryData) - 1), j \in 0..(Len(gm.RecoveryMatrix.Columns) - 1) :
        MatrixGet(gm.RecoveryMatrix.Matrix, gm.memory, ii, j)
            = MatrixGet(fresh.RecoveryMatrix.Matrix, fresh.memory, ii, j)

\* GenerateMatrix has returned gm where a default-constructed RecoveryMatrixState gives fresh:
\* the state is reset and rebuilt, and nothing of it differs from fresh, nor does the
\* elimination that follows
RebuiltAs(gm, fresh) ==
    (gm.ok /\ ~gm.fault) =>
        /\ gm.RecoveryMatrix.GEResumePivot = 0
        /\ gm.RecoveryMatrix.FilledRows = Len(gm.Window.RecoveryData)
        /\ gm.RecoveryMatrix.Pivots = Identity(Len(gm.Window.RecoveryData))
        /\ AsTuple([j \in 1..Len(gm.RecoveryMatrix.Columns) |-> gm.RecoveryMatrix.Columns[j].Column])
             = Ascending(MissingColumns(gm.Window))
        /\ \A ii \in 0..(Len(gm.Window.RecoveryData) - 1), j \in 0..(Len(gm.RecoveryMatrix.Columns) - 1) :
             MatrixGet(gm.RecoveryMatrix.Matrix, gm.memory, ii, j)
                = CoefficientRow(gm.Window, gm.RecoveryMatrix.Columns, ii)[j + 1]
        /\ fresh.ok /\ ~fresh.fault
        /\ gm.RecoveryMatrix = fresh.RecoveryMatrix /\ gm.Window = fresh.Window
        /\ SameCells(gm, fresh)
        /\ SameCells(GaussianElimination(gm.RecoveryMatrix, gm.Window, gm.memory),
                     GaussianElimination(fresh.RecoveryMatrix, fresh.Window, fresh.memory))
        /\ GaussianElimination(gm.RecoveryMatrix, gm.Window, gm.memory).RecoveryMatrix
             = GaussianElimination(fresh.RecoveryMatrix, fresh.Window, fresh.memory).RecoveryMatrix
        /\ GaussianElimination(gm.RecoveryMatrix, gm.Window, gm.memory).ok
             = GaussianElimination(fresh.RecoveryMatrix, fresh.Window, fresh.memory).ok

\* C25: a GenerateMatrix that finds another number of lost columns than the previous build
\* resets GEResumePivot and FilledRows, populates Columns again, sets Pivots to the identity
\* over all rows and generates every row from scratch: no cell, pivot or resume pivot of the
\* old matrix has a part in the new elimination
C25_RebuildOnChange ==
    [][(/\ call'.op = "Decode" /\ alive /\ Attempts(decoder)
        /\ decoder.Window.InputCount - decoder.Window.OriginalGotCount # Len(decoder.RecoveryMatrix.Columns)) =>
          RebuiltAs(GenerateMatrix(decoder.RecoveryMatrix, decoder.Window, mem, TRUE),
                    GenerateMatrix(NewRecoveryMatrix, decoder.Window, mem, TRUE))]_vars

\* C25 witness: a Decode call has built the matrix for one lost column of two, after a build for
\* both columns (column 1 still has the matrix column of that build) and after an original arrived
C25_Witness ==
    /\ call.op = "Decode" /\ ~call.found.failed /\ ~call.found.attempted /\ failures = 0
    /\ decoder.Window.InputCount = 2 /\ decoder.Window.OriginalGotCount = 1
    /\ Len(decoder.RecoveryMatrix.Columns) = 1
    /\ At(decoder.Window.OriginalData, 1).Data # nullptr
    /\ At(decoder.Window.OriginalData, 1).RecoveryMatrixColumn = 1
    /\ Len(decoder.Window.RecoveryData) >= 2

\* GaussianElimination has returned ge with false: the resume pivot is a column of the matrix
\* that is zero in every row without a pivot, and the attempt has left nothing begun for this
\* pivot: another attempt on the same rows finds the matrix and Pivots as they are and changes
\* none of them
FailedAt(ge) ==
    ~ge.ok =>
        /\ ge.RecoveryMatrix.GEResumePivot < Len(ge.RecoveryMatrix.Columns)
        /\ \A q \in ge.RecoveryMatrix.GEResumePivot..(Len(ge.Window.RecoveryData) - 1) :
             PivotCell(ge.RecoveryMatrix, ge.memory[MatrixPtr], q, ge.RecoveryMatrix.GEResumePivot) = 0
        /\ GaussianElimination(ge.RecoveryMatrix, ge.Window, ge.memory) = ge

\* GaussianElimination has returned ge for the matrix RM with the bytes data: the pivots below
\* GEResumePivot of RM and the cells of their rows are as they were
PivotsKept(RM, data, ge) ==
    /\ ge.RecoveryMatrix.GEResumePivot >= RM.GEResumePivot \/ ge.ok
    /\ \A q \in 0..(RM.GEResumePivot - 1) :
        /\ At(ge.RecoveryMatrix.Pivots, q) = At(RM.Pivots, q)
        /\ \A j \in 0..(Len(RM.Columns) - 1) :
             PivotCell(ge.RecoveryMatrix, ge.memory[MatrixPtr], q, j) = PivotCell(RM, data, q, j)

\* The attempt on what GenerateMatrix has returned
ResumedFrom(gm) ==
    (gm.ok /\ ~gm.fault) =>
        /\ FailedAt(GaussianElimination(gm.RecoveryMatrix, gm.Window, gm.memory))
        /\ PivotsKept(gm.RecoveryMatrix, gm.memory[MatrixPtr],
                      GaussianElimination(gm.RecoveryMatrix, gm.Window, gm.memory))

\* C26: a GaussianElimination that finds no non-zero candidate for pivot p sets GEResumePivot = p
\* and returns false with nothing changed for pivot p; the next attempt on the same lost columns
\* starts at pivot p and leaves the rows and Pivots of the pivots 0..p-1 unchanged; GEResumePivot
\* does not decrease while the lost columns of the matrix are the same, and it is below the
\* number M of columns of a matrix that has been built
C26_ResumeCursor ==
    [][/\ (call'.op = "Decode" /\ alive /\ Attempts(decoder)) =>
              ResumedFrom(GenerateMatrix(decoder.RecoveryMatrix, decoder.Window, mem, TRUE))
       /\ decoder'.RecoveryMatrix.Columns = decoder.RecoveryMatrix.Columns =>
              decoder'.RecoveryMatrix.GEResumePivot >= decoder.RecoveryMatrix.GEResumePivot
       /\ decoder'.RecoveryMatrix.Columns # << >> =>
              decoder'.RecoveryMatrix.GEResumePivot < Len(decoder'.RecoveryMatrix.Columns)]_vars

\* C26 witness: a Decode call has returned Fecal_NeedMoreData from an elimination that found no
\* candidate for pivot 1 of two lost columns
C26_Witness ==
    /\ call.op = "Decode" /\ call.result = Fecal_NeedMoreData /\ ~call.found.attempted
    /\ failures = 0 /\ ~succeeded
    /\ Len(decoder.RecoveryMatrix.Columns) = 2 /\ decoder.RecoveryMatrix.GEResumePivot = 1
    /\ decoder.RecoveryMatrix.FilledRows = Len(decoder.Window.RecoveryData)

\* The indices of the recovery records of D at Pivots[0..M)
PivotRecords(D) ==
    {At(D.RecoveryMatrix.Pivots, q) : q \in 0..(Len(D.RecoveryMatrix.Columns) - 1)}

\* The indices of the recovery records of D with UsedForSolution = true
UsedRecords(D) ==
    {ii \in 0..(Len(D.Window.RecoveryData) - 1) : At(D.Window.RecoveryData, ii).UsedForSolution}

\* C27: when a Decode that recovers returns Fecal_Success, the recovery records with
\* UsedForSolution = true are the M records at Pivots[0..M), and the call has changed the bytes
\* of the buffers of those records only
C27_UsedAreThePivots ==
    [][(call'.op = "Decode" /\ alive' /\ call'.result = Fecal_Success /\ call'.out.Count > 0) =>
          /\ UsedRecords(decoder') = PivotRecords(decoder')
          /\ Cardinality(PivotRecords(decoder')) = Len(decoder'.RecoveryMatrix.Columns)
          /\ \A ii \in 0..(Len(decoder'.Window.RecoveryData) - 1) :
               mem'[At(decoder'.Window.RecoveryData, ii).Data] # mem[At(decoder'.Window.RecoveryData, ii).Data]
                   => ii \in PivotRecords(decoder')]_vars

\* The columns of W from start on that have not been given to AddOriginal
NotReceived(W, start) == {c \in start..(W.InputCount - 1) : At(W.OriginalData, c).Data = nullptr}

\* C28: FindNextLostElement(start) returns the smallest column c, start <= c < K, that has not
\* been received, and K when there is none, also for start >= K and when only the bits of the
\* last subwindow beyond K are clear; nextElement does not exceed K before the test
\* nextElement > InputCount
C28_NextLostElement ==
    call.op = "FindNextLostElement" =>
        /\ NotReceived(decoder.Window, call.symbol.Index) = {} => call.result = decoder.Window.InputCount
        /\ NotReceived(decoder.Window, call.symbol.Index) # {} =>
             /\ call.result \in NotReceived(decoder.Window, call.symbol.Index)
             /\ \A c \in NotReceived(decoder.Window, call.symbol.Index) : call.result <= c
        /\ call.found.nextElement <= decoder.Window.InputCount
        /\ call.found.nextElement = call.result

\* C28 witness: every column of a window of a subwindow and one column has been received, the
\* other bits of the last subwindow are clear, and FindNextLostElement(0) has returned K
C28_Witness ==
    /\ call.op = "FindNextLostElement" /\ call.symbol.Index = 0
    /\ decoder.Window.InputCount = kSubwindowSize + 1
    /\ decoder.Window.OriginalGotCount = decoder.Window.InputCount
    /\ At(decoder.Window.Subwindows, 1).GotCount = 1
    /\ call.result = decoder.Window.InputCount

\* The columns of W whose bit of the Got bitset of their subwindow is clear
ClearColumns(W) ==
    {c \in 0..(W.InputCount - 1) : c % kSubwindowSize \notin At(W.Subwindows, c \div kSubwindowSize).Got}

\* GenerateMatrix has returned gm with the matrix built: Columns holds the lost columns in
\* ascending order with their column values, the originals of these columns hold their matrix
\* columns, and every write for a pair lands on a column of the matrix
Populated(gm) ==
    (gm.ok /\ ~gm.fault) =>
        /\ Len(gm.RecoveryMatrix.Columns) = gm.Window.InputCount - gm.Window.OriginalGotCount
        /\ {gm.RecoveryMatrix.Columns[j].Column : j \in 1..Len(gm.RecoveryMatrix.Columns)} = ClearColumns(gm.Window)
        /\ \A j \in 1..Len(gm.RecoveryMatrix.Columns) :
            /\ gm.RecoveryMatrix.Columns[j].CX = GetColumnValue(gm.RecoveryMatrix.Columns[j].Column)
            /\ At(gm.Window.OriginalData, gm.RecoveryMatrix.Columns[j].Column).RecoveryMatrixColumn = j - 1
            /\ j > 1 => gm.RecoveryMatrix.Columns[j - 1].Column < gm.RecoveryMatrix.Columns[j].Column
        /\ \A c \in 0..(gm.Window.InputCount - 1) :
             At(gm.Window.OriginalData, c).Data = nullptr =>
                /\ At(gm.Window.OriginalData, c).RecoveryMatrixColumn < Len(gm.RecoveryMatrix.Columns)
                /\ gm.RecoveryMatrix.Columns[At(gm.Window.OriginalData, c).RecoveryMatrixColumn + 1].Column = c

\* What GenerateMatrix asserts of the matrix RM and the window W it is called for
Preconditions(RM, W) ==
    /\ Len(W.RecoveryData) >= W.InputCount - W.OriginalGotCount
    /\ W.InputCount - W.OriginalGotCount = Len(RM.Columns) => RM.FilledRows < Len(W.RecoveryData)

\* C29: after a GenerateMatrix call of Decode, Columns holds the M lost columns in strictly
\* ascending order with CX = GetColumnValue(column), the original of Columns[j] has
\* RecoveryMatrixColumn = j, so that the writes for the pairs land on columns below M; at the
\* call R >= M holds, and FilledRows < R where rows are added to a matrix of as many columns
C29_ColumnsPopulated ==
    [][(call'.op = "Decode" /\ alive /\ Attempts(decoder)) =>
          /\ Preconditions(decoder.RecoveryMatrix, decoder.Window)
          /\ Populated(GenerateMatrix(decoder.RecoveryMatrix, decoder.Window, mem, TRUE))]_vars

\* C29 witness: a Decode call has added a row to the matrix of two lost columns; Columns holds
\* columns 0 and 1, and the original of column 1 has the matrix column 1
C29_Witness ==
    /\ call.op = "Decode" /\ ~call.found.attempted /\ ~call.found.failed /\ ~call.found.succeeded
    /\ decoder.Window.OriginalGotCount = 0
    /\ Len(decoder.RecoveryMatrix.Columns) = 2
    /\ decoder.RecoveryMatrix.Columns[1].Column = 0 /\ decoder.RecoveryMatrix.Columns[2].Column = 1
    /\ At(decoder.Window.OriginalData, 1).RecoveryMatrixColumn = 1
    /\ decoder.RecoveryMatrix.FilledRows = 3 /\ decoder.RecoveryMatrix.GEResumePivot = 1

\* The sum of the GotCount fields of the subwindows of W from subwindow n on
RECURSIVE GotCountSum(_, _)
GotCountSum(W, n) ==
    IF n >= Len(W.Subwindows) THEN 0 ELSE At(W.Subwindows, n).GotCount + GotCountSum(W, n + 1)

\* The counts of W are those of the bits of the Got bitsets
CountsAgree(W) ==
    /\ W.OriginalGotCount = GotCountSum(W, 0)
    /\ \A n \in 0..(Len(W.Subwindows) - 1) :
         At(W.Subwindows, n).GotCount = Cardinality(At(W.Subwindows, n).Got)

\* The bit of a column of W is set exactly when its original has data
BitsAgree(W) ==
    \A c \in 0..(W.InputCount - 1) : (c \notin ClearColumns(W)) <=> (At(W.OriginalData, c).Data # nullptr)

\* C30: in every state of the decoder OriginalGotCount is the sum of the GotCount fields of the
\* subwindows, every GotCount is the number of the set bits of its Got bitset, and the bit of a
\* column is set exactly when the data pointer of its OriginalData entry is not null
C30_GotAccounting ==
    alive => (CountsAgree(decoder.Window) /\ BitsAgree(decoder.Window))

====
